---------------------------- MODULE Spec2Model ----------------------------
(***************************************************************************)
(* Hybrid lexical/semantic retrieval of OneRAG:                            *)
(*   bm25_engine/hybrid_merger.py  HybridMerger (RRF fusion)               *)
(*   bm25_engine/index.py          BM25Index    (keyword index)            *)
(*   bm25_engine/tokenizer.py      KoreanTokenizer                         *)
(*                                                                         *)
(* Numbers.  alpha is held in tenths (6 stands for 0.6).  An RRF score is  *)
(* held as an integer multiple of 1 / (10 * Unit), where Unit is the       *)
(* product of the rank denominators 61, 62, ... that the bounded lists can *)
(* reach, so every term alpha * 1/(K + rank + 1) is an exact integer and   *)
(* sums and comparisons are those of exact arithmetic.                     *)
(***************************************************************************)
EXTENDS Integers, Sequences, FiniteSets, TLC

VARIABLES
    merger,         \* TRUE once a HybridMerger object exists
    alpha,          \* HybridMerger._alpha in tenths (meaningful when merger)
    ctor,           \* the last HybridMerger(alpha=...) call: argument, raised or not
    dense_results,  \* the caller's dense list (SearchResult objects)
    bm25_results,   \* the caller's keyword list (dicts)
    top_k,          \* top_k of the last merge call
    merged,         \* return value of the last merge call
    pc,             \* "idle": no merge call on the current lists yet; "returned"
    memo,           \* an earlier merge call of this merger: its inputs and result
    _documents,      \* BM25Index._documents
    _tokenized_corpus, \* BM25Index._tokenized_corpus
    _bm25,           \* BM25Index._bm25: << >> for None, else <<ranking model>>
    query,          \* query of the last search call
    search_k,       \* top_k of the last search call
    results,        \* return value of the last search call
    searched,       \* TRUE when results is the answer of the index as it is now
    lastBuild,      \* the documents passed to the most recent build call
    earlierDocs,    \* the documents passed to any build call before that one
    builds,         \* number of build calls started so far
    docsGen,        \* the build call (1, 2, ...; 0: none) that stored _documents
    bm25Gen,        \* the build call that stored _bm25
    bpc,            \* building thread: "idle" or the assignment of build it is at
    bdocs,          \* building thread: the documents argument of build
    spc,            \* searching thread: "idle" or the line of search it is at
    s_query_tokens, \* searching thread: local query_tokens
    s_raw_scores,   \* searching thread: local raw_scores
    s_idx,          \* searching thread: loop index idx (1-based)
    s_results,      \* searching thread: local results
    s_modelGen,     \* the build whose ranking model computed raw_scores
    s_docGens,      \* the builds whose documents the loop has read
    s_outcome,      \* how the last search call ended: "none", "returned", "raised"
    documents,      \* the caller's list object, as passed to the last build call
    shared,         \* TRUE when _documents is that same list object
    consulted,      \* TRUE when the last search call called get_scores
    search_raised,  \* TRUE when the last search call raised
    tk,             \* the KoreanTokenizer: which collaborators it was given
    t_op,           \* "none", "tokenize" or "tokenize_batch": the last call
    t_text,         \* argument of the last tokenize call
    t_tokens,       \* return value of the last tokenize call
    t_calls,        \* calls the last call made to collaborators and analyzer
    b_texts,        \* argument of the last tokenize_batch call
    b_result,       \* return value of the last tokenize_batch call
    build_raised,   \* TRUE when the last build call raised
    prior,          \* the index attributes as they were when that call began
    stats,          \* CohereReranker.stats
    calls,          \* the rerank calls made so far, each with where it stands
    modules,        \* ChatService: the modules and settings it was given
    session_id,     \* stream_rag_pipeline: argument session_id
    stream_pc,      \* stream_rag_pipeline: the yield the generator stands at
    events,         \* the events the consumer has received in this run
    chunk_index,    \* stream_rag_pipeline: local chunk_index
    final_session_id \* stream_rag_pipeline: local final_session_id

mergeVars == <<merger, alpha, ctor, dense_results, bm25_results, top_k,
               merged, pc, memo>>

indexVars == <<_documents, _tokenized_corpus, _bm25, query, search_k, results,
               searched, lastBuild, earlierDocs>>

concVars == <<builds, docsGen, bm25Gen, bpc, bdocs, spc, s_query_tokens,
              s_raw_scores,
              s_idx, s_results, s_modelGen, s_docGens, s_outcome>>

callerVars == <<documents, shared, consulted, search_raised>>

tokVars == <<tk, t_op, t_text, t_tokens, t_calls, b_texts, b_result>>

failVars == <<build_raised, prior>>

rerankVars == <<stats, calls>>

streamVars == <<modules, session_id, stream_pc, events, chunk_index,
                final_session_id>>

serviceVars == <<rerankVars, streamVars>>

vars == <<mergeVars, indexVars, concVars, callerVars, tokVars, failVars,
          serviceVars>>

-----------------------------------------------------------------------------
(* Bounds of the model *)

MaxDense == 3
MaxKeyword == 2
MaxTopK == 3
MaxPure == 1
MaxDocs == 2
MaxSearchK == 2
MaxBuilds == 2
MaxBatch == 2
MaxCalls == 2
MaxResults == 2
MaxChunks == 2

(* hybrid_merger.py:23 *)
_RRF_K == 60

NoMemo == << >>
NoPrior == << >>
None == "None"
NoStats == [total_requests |-> 0, successful_requests |-> 0, failed_requests |-> 0]
NoModules ==
    [session |-> FALSE, retrieval |-> FALSE, reranking |-> FALSE,
     generation |-> "none"]
Absent == "Absent"
EmptyMeta == "{}"

Max(a, b) == IF a >= b THEN a ELSE b

Min(a, b) == IF a <= b THEN a ELSE b

-----------------------------------------------------------------------------
(* Inputs *)

\* alpha arguments tried by callers, in tenths: -0.1, 0.0, 0.5, 0.6, 1.0, 1.1
AlphaArgs == {-1, 0, 5, 6, 10, 11}

\* SearchResult objects of the dense searcher (merge never reads their score).
\* Id "a" comes with two different payloads so that a repeated sighting can be
\* told from the first.
DenseEntries ==
    { [id |-> "a", content |-> "A-dense", metadata |-> "m-dense"],
      [id |-> "a", content |-> "A-other", metadata |-> "m-other"],
      [id |-> "b", content |-> "B", metadata |-> "m-b"] }

\* Keyword result dicts; the "metadata" key may be missing.
KeywordEntries ==
    { [id |-> "a", content |-> "A-kw", metadata |-> Absent],
      [id |-> "c", content |-> "C-kw", metadata |-> "m-kw"],
      [id |-> "c", content |-> "C-other", metadata |-> Absent] }

ListsOf(S, n) == UNION { [1..m -> S] : m \in 0..n }

Ids(list) == { list[i].id : i \in 1..Len(list) }

DistinctIds(list) ==
    \A i, j \in 1..Len(list) : list[i].id = list[j].id => i = j

-----------------------------------------------------------------------------
(* Python dict: insertion-ordered sequence of <<key, value>> entries *)

EmptyDict == << >>

DictHas(d, k) == \E i \in 1..Len(d) : d[i].key = k

DictGet(d, k, default) ==
    IF DictHas(d, k)
    THEN d[CHOOSE i \in 1..Len(d) : d[i].key = k].val
    ELSE default

DictPutAppend(d, k, v) == Append(d, [key |-> k, val |-> v])

\* d[k] = v: an existing key keeps its position, a new key goes last
DictPut(d, k, v) ==
    IF DictHas(d, k)
    THEN [i \in 1..Len(d) |-> IF d[i].key = k THEN [key |-> k, val |-> v] ELSE d[i]]
    ELSE Append(d, [key |-> k, val |-> v])

DictKeys(d) == [i \in 1..Len(d) |-> d[i].key]

-----------------------------------------------------------------------------
(* HybridMerger.__init__ *)

AlphaInRangeStrict(a) == 0 < a /\ a < 10

\* hybrid_merger.py:35  0.0 <= alpha <= 1.0
AlphaInRange(a) == 0 <= a /\ a <= 10

-----------------------------------------------------------------------------
(* HybridMerger.merge *)

RECURSIVE RankProduct(_)
RankProduct(n) == IF n = 0 THEN 1 ELSE (_RRF_K + n) * RankProduct(n - 1)

\* common denominator of 1/61, 1/62, ... for the ranks the lists can reach
Unit == RankProduct(Max(Max(MaxDense, MaxKeyword), MaxPure))

\* the score 1.0 in model units
One == 10 * Unit

RrfTermOffByOne(weight, rank) == weight * (Unit \div (_RRF_K + rank + 2))

RrfTermUnweighted(weight, rank) == Unit \div (_RRF_K + rank + 1)

\* weight * (1.0 / (_RRF_K + rank + 1)), rank zero-based
RrfTerm(weight, rank) == weight * (Unit \div (_RRF_K + rank + 1))

Bm25WeightSame(a) == a

\* hybrid_merger.py:74  bm25_weight = 1.0 - self._alpha
Bm25Weight(a) == 10 - a

InitialScoresKept ==
    IF pc = "returned"
    THEN [i \in 1..Len(merged) |-> [key |-> merged[i].id, val |-> merged[i].score]]
    ELSE EmptyDict

\* hybrid_merger.py:60  rrf_scores = {}  (a fresh local of every call)
InitialScores == EmptyDict

AccumulateMax(scores, id, term) ==
    DictPut(scores, id, Max(DictGet(scores, id, 0), term))

AccumulateDup(scores, id, term) ==
    DictPutAppend(scores, id, DictGet(scores, id, 0) + term)

AccumulateOverwrite(scores, id, term) == DictPut(scores, id, term)

\* rrf_scores[id] = rrf_scores.get(id, 0.0) + rrf_score
Accumulate(scores, id, term) ==
    DictPut(scores, id, DictGet(scores, id, 0) + term)

SetDocInfoOverwrite(info, id, content, metadata) ==
    DictPut(info, id, [content |-> content, metadata |-> metadata])

\* if id not in doc_info: doc_info[id] = {"content": ..., "metadata": ...}
SetDocInfo(info, id, content, metadata) ==
    IF DictHas(info, id)
    THEN info
    ELSE DictPut(info, id, [content |-> content, metadata |-> metadata])

\* result.get("metadata", {})
GetMetadata(result) ==
    IF result.metadata = Absent THEN EmptyMeta ELSE result.metadata

\* hybrid_merger.py:64-71, the loop over enumerate(dense_results) from index i
RECURSIVE DenseLoop(_, _, _, _)
DenseLoop(st, a, dense, i) ==
    IF i > Len(dense)
    THEN st
    ELSE LET result == dense[i]
             rrf_score == RrfTerm(a, i - 1)
         IN  DenseLoop(
                 [scores |-> Accumulate(st.scores, result.id, rrf_score),
                  info |-> SetDocInfo(st.info, result.id, result.content,
                                    result.metadata)],
                 a, dense, i + 1)

\* hybrid_merger.py:74-83, the loop over enumerate(bm25_results) from index i
RECURSIVE Bm25Loop(_, _, _, _)
Bm25Loop(st, bm25_weight, bm25, i) ==
    IF i > Len(bm25)
    THEN st
    ELSE LET result == bm25[i]
             doc_id == result.id
             rrf_score == RrfTerm(bm25_weight, i - 1)
         IN  Bm25Loop(
                 [scores |-> Accumulate(st.scores, doc_id, rrf_score),
                  info |-> SetDocInfo(st.info, doc_id, result.content,
                                    GetMetadata(result))],
                 bm25_weight, bm25, i + 1)

\* insert key k into the descending sequence s after every key whose score is
\* greater than or EQUAL to its own: equal keys keep their arrival order
RECURSIVE InsertDesc(_, _, _)
InsertDesc(s, k, scores) ==
    IF s = << >>
    THEN <<k>>
    ELSE IF DictGet(scores, Head(s), 0) >= DictGet(scores, k, 0)
         THEN <<Head(s)>> \o InsertDesc(Tail(s), k, scores)
         ELSE <<k>> \o s

RECURSIVE InsertDescTiesFirst(_, _, _)
InsertDescTiesFirst(s, k, scores) ==
    IF s = << >>
    THEN <<k>>
    ELSE IF DictGet(scores, Head(s), 0) > DictGet(scores, k, 0)
         THEN <<Head(s)>> \o InsertDescTiesFirst(Tail(s), k, scores)
         ELSE <<k>> \o s

RECURSIVE SortUnstable(_, _, _)
SortUnstable(keys, scores, acc) ==
    IF keys = << >>
    THEN acc
    ELSE SortUnstable(Tail(keys), scores, InsertDescTiesFirst(acc, Head(keys), scores))

SortedIdsUnstable(scores) == SortUnstable(DictKeys(scores), scores, << >>)

\* insertion sort of keys into acc, one key after the other in dict order
RECURSIVE SortDesc(_, _, _)
SortDesc(keys, scores, acc) ==
    IF keys = << >>
    THEN acc
    ELSE SortDesc(Tail(keys), scores, InsertDesc(acc, Head(keys), scores))

RECURSIVE PositiveKeys(_, _)
PositiveKeys(keys, scores) ==
    IF keys = << >>
    THEN << >>
    ELSE (IF DictGet(scores, Head(keys), 0) > 0 THEN <<Head(keys)>> ELSE << >>)
         \o PositiveKeys(Tail(keys), scores)

SortedIdsPositive(scores) ==
    SortDesc(PositiveKeys(DictKeys(scores), scores), scores, << >>)

\* hybrid_merger.py:86  sorted(rrf_scores.keys(), key=..., reverse=True):
\* descending by score, stable (equal scores keep dict insertion order)
SortedIds(scores) == SortDesc(DictKeys(scores), scores, << >>)

SliceOneMore(s, k) == SubSeq(s, 1, IF k + 1 < Len(s) THEN k + 1 ELSE Len(s))

\* s[:k] for k >= 0
Slice(s, k) == SubSeq(s, 1, IF k < Len(s) THEN k ELSE Len(s))

\* hybrid_merger.py:57-105
MergeResult(a, dense, bm25, k) ==
    IF dense = << >> /\ bm25 = << >>
    THEN << >>
    ELSE LET st0 == [scores |-> InitialScores, info |-> EmptyDict]
             st1 == DenseLoop(st0, a, dense, 1)
             st2 == Bm25Loop(st1, Bm25Weight(a), bm25, 1)
             ids == Slice(SortedIds(st2.scores), k)
         IN  [i \in 1..Len(ids) |->
                 LET info == DictGet(st2.info, ids[i], Absent)
                 IN  [id |-> ids[i],
                      content |-> info.content,
                      score |-> DictGet(st2.scores, ids[i], 0),
                      metadata |-> info.metadata]]

-----------------------------------------------------------------------------
(* KoreanTokenizer.  A text is held as the sequence of the pieces it is    *)
(* made of: whitespace (Space) and the (form, tag) morphemes the Kiwi       *)
(* analyzer splits the rest into.                                          *)

Morph(f, t) == [form |-> f, tag |-> t]

Space == Morph(" ", "SPACE")

\* tokenizer.py:30-32
_MEANINGFUL_POS_TAGS == {"NNG", "NNP", "VV", "VA", "MAG", "SL", "SN", "SH"}

IsBlankEmptyOnly(text) == text = << >>

\* tokenizer.py:104  not text or not text.strip()
IsBlank(text) == \A i \in 1..Len(text) : text[i] = Space

\* tokenizer.py:122  self._kiwi.tokenize(processed_text): the morphemes of the
\* text in order, whitespace skipped
RECURSIVE Kiwi(_)
Kiwi(text) ==
    IF text = << >>
    THEN << >>
    ELSE IF Head(text) = Space
         THEN Kiwi(Tail(text))
         ELSE <<Head(text)>> \o Kiwi(Tail(text))

\* tokenizer.py:53-61: a tokenizer is the three collaborators it was given
\* (FALSE: None)
NoCollaborators ==
    [stopword_filter |-> FALSE, synonym_manager |-> FALSE, user_dictionary |-> FALSE]

Tokenizers ==
    [stopword_filter : BOOLEAN, synonym_manager : BOOLEAN, user_dictionary : BOOLEAN]

(* The collaborators: a user dictionary holding one compound term, a       *)
(* synonym manager holding one synonym, a stopword filter holding two      *)
(* stopwords, one of them the compound term.                               *)

Compound == <<Morph("rag", "SL"), Space, Morph("api", "NNG")>>

CompoundTerm == "rag api"

Placeholder == Morph("__P0__", "SL")

Synonym == Morph("setup", "NNG")

Canonical == Morph("install", "NNG")

Stopwords == {"rag api", "guide"}

RECURSIVE ProtectText(_)
ProtectText(text) ==
    IF text = << >>
    THEN << >>
    ELSE IF Len(text) >= Len(Compound) /\ SubSeq(text, 1, Len(Compound)) = Compound
         THEN <<Placeholder>> \o ProtectText(SubSeq(text, Len(Compound) + 1, Len(text)))
         ELSE <<Head(text)>> \o ProtectText(Tail(text))

\* UserDictionary.protect_entries(text) -> (text, restore_map)
ProtectEntries(text) ==
    [text |-> ProtectText(text),
     restore_map |-> IF ProtectText(text) = text
                     THEN EmptyDict
                     ELSE DictPut(EmptyDict, Placeholder.form, CompoundTerm)]

\* UserDictionary.restore_entries(form, restore_map)
RestoreEntries(form, restore_map) == DictGet(restore_map, form, form)

\* SynonymManager.expand_query(text)
ExpandQuery(text) ==
    [i \in 1..Len(text) |-> IF text[i] = Synonym THEN Canonical ELSE text[i]]

\* StopwordFilter.filter(tokens)
RECURSIVE Filter(_)
Filter(tokens) ==
    IF tokens = << >>
    THEN << >>
    ELSE IF Head(tokens) \in Stopwords
         THEN Filter(Tail(tokens))
         ELSE <<Head(tokens)>> \o Filter(Tail(tokens))

\* one entry of the log of calls a tokenize call makes
Call(op, arg) == [op |-> op, arg |-> arg]

NoCalls == [tokens |-> << >>, calls |-> << >>]

RECURSIVE SegmentLoopAllTags(_, _, _)
SegmentLoopAllTags(morphs, restore_map, st) ==
    IF morphs = << >>
    THEN st
    ELSE LET token == Head(morphs) IN
         IF restore_map # EmptyDict
         THEN SegmentLoopAllTags(Tail(morphs), restore_map,
                  [tokens |-> Append(st.tokens,
                                     RestoreEntries(token.form, restore_map)),
                   calls |-> Append(st.calls,
                                    Call("restore_entries", <<token.form>>))])
         ELSE SegmentLoopAllTags(Tail(morphs), restore_map,
                  [tokens |-> Append(st.tokens, token.form),
                   calls |-> st.calls])

\* tokenizer.py:122-130: the loop over the morphemes; st holds the tokens list
\* and the log of calls so far
RECURSIVE SegmentLoop(_, _, _)
SegmentLoop(morphs, restore_map, st) ==
    IF morphs = << >>
    THEN st
    ELSE LET token == Head(morphs) IN
         IF token.tag \in _MEANINGFUL_POS_TAGS
         THEN IF restore_map # EmptyDict
              THEN SegmentLoop(Tail(morphs), restore_map,
                       [tokens |-> Append(st.tokens,
                                          RestoreEntries(token.form, restore_map)),
                        calls |-> Append(st.calls,
                                         Call("restore_entries", <<token.form>>))])
              ELSE SegmentLoop(Tail(morphs), restore_map,
                       [tokens |-> Append(st.tokens, token.form),
                        calls |-> st.calls])
         ELSE SegmentLoop(Tail(morphs), restore_map, st)

\* the tokens of restore-less segmentation, each restored afterwards
RestoreAll(tokens, restore_map, st) ==
    [tokens |-> [i \in 1..Len(tokens) |-> RestoreEntries(tokens[i], restore_map)],
     calls |-> st.calls \o
               (IF restore_map = EmptyDict
                THEN << >>
                ELSE [i \in 1..Len(tokens) |->
                         Call("restore_entries", <<tokens[i]>>)])]

\* the order of the docstring (tokenizer.py:91-96): stopword filter at 4,
\* restoration at 5
TokenizeWithDocstringOrder(t, text) ==
    IF IsBlank(text)
    THEN NoCalls
    ELSE LET p == IF t.user_dictionary
                  THEN ProtectEntries(text)
                  ELSE [text |-> text, restore_map |-> EmptyDict]
             c1 == IF t.user_dictionary
                   THEN <<Call("protect_entries", text)>>
                   ELSE << >>
             e == IF t.synonym_manager THEN ExpandQuery(p.text) ELSE p.text
             c2 == IF t.synonym_manager
                   THEN Append(c1, Call("expand_query", p.text))
                   ELSE c1
             st == SegmentLoop(Kiwi(e), EmptyDict,
                       [tokens |-> << >>,
                        calls |-> Append(c2, Call("kiwi.tokenize", e))])
             f == IF t.stopword_filter
                  THEN [tokens |-> Filter(st.tokens),
                        calls |-> Append(st.calls, Call("filter", st.tokens))]
                  ELSE st
         IN  RestoreAll(f.tokens, p.restore_map, f)

\* tokenizer.py:104-136  tokenize(text) of tokenizer t: the returned tokens and
\* the calls made on the way, in order
TokenizeWith(t, text) ==
    IF IsBlank(text)
    THEN NoCalls
    ELSE LET p == IF t.user_dictionary
                  THEN ProtectEntries(text)
                  ELSE [text |-> text, restore_map |-> EmptyDict]
             c1 == IF t.user_dictionary
                   THEN <<Call("protect_entries", text)>>
                   ELSE << >>
             e == IF t.synonym_manager THEN ExpandQuery(p.text) ELSE p.text
             c2 == IF t.synonym_manager
                   THEN Append(c1, Call("expand_query", p.text))
                   ELSE c1
             st == SegmentLoop(Kiwi(e), p.restore_map,
                       [tokens |-> << >>,
                        calls |-> Append(c2, Call("kiwi.tokenize", e))])
         IN  IF t.stopword_filter
             THEN [tokens |-> Filter(st.tokens),
                   calls |-> Append(st.calls, Call("filter", st.tokens))]
             ELSE st

RECURSIVE TokenizeBatchSkipBlank(_, _)
TokenizeBatchSkipBlank(t, texts) ==
    IF texts = << >>
    THEN [result |-> << >>, calls |-> << >>]
    ELSE LET first == TokenizeWith(t, Head(texts))
             rest == TokenizeBatchSkipBlank(t, Tail(texts))
         IN  IF first.tokens = << >>
             THEN rest
             ELSE [result |-> <<first.tokens>> \o rest.result,
                   calls |-> first.calls \o rest.calls]

\* tokenizer.py:148  [self.tokenize(text) for text in texts]
RECURSIVE TokenizeBatchWith(_, _)
TokenizeBatchWith(t, texts) ==
    IF texts = << >>
    THEN [result |-> << >>, calls |-> << >>]
    ELSE LET first == TokenizeWith(t, Head(texts))
             rest == TokenizeBatchWith(t, Tail(texts))
         IN  [result |-> <<first.tokens>> \o rest.result,
              calls |-> first.calls \o rest.calls]

\* the tokenizer of the index is KoreanTokenizer() (test_index.py:24-25)
Tokenize(text) == TokenizeWith(NoCollaborators, text).tokens

TokenizeBatch(texts) == TokenizeBatchWith(NoCollaborators, texts).result

-----------------------------------------------------------------------------
(* Inputs of the index *)

\* The second document repeats the id of the first (build does not look at
\* ids) and has the same tokens as the third.
DocPool ==
    { [id |-> "1",
       content |-> <<Morph("rag", "SL"), Space, Morph("install", "NNG"),
                     Morph("ul", "JKO")>>,
       metadata |-> "m1"],
      [id |-> "1",
       content |-> <<Morph("api", "NNG"), Morph("ga", "JKS")>>,
       metadata |-> Absent],
      [id |-> "3",
       content |-> <<Morph("api", "NNG"), Morph("nun", "JX")>>,
       metadata |-> "m3"] }

QueryPool ==
    { << >>,
      <<Space>>,
      <<Morph("ul", "JKO")>>,
      <<Morph("install", "NNG"), Morph("ul", "JKO")>>,
      <<Morph("rag", "SL"), Morph("api", "NNG")>>,
      <<Morph("zyx", "SL")>> }

-----------------------------------------------------------------------------
(* rank_bm25.BM25Plus(corpus) with k1 = 1.5, b = 0.75, delta = 1, as used  *)
(* by BM25Index.  Raw scores are held in thousandths.                      *)

\* natural logarithm of 1..8 in thousandths
LnMilli(n) == <<0, 693, 1099, 1386, 1609, 1792, 1946, 2079>>[n]

RECURSIVE Count(_, _)
Count(tokens, q) ==
    IF tokens = << >>
    THEN 0
    ELSE (IF Head(tokens) = q THEN 1 ELSE 0) + Count(Tail(tokens), q)

RECURSIVE TotalLen(_)
TotalLen(corpus) ==
    IF corpus = << >> THEN 0 ELSE Len(Head(corpus)) + TotalLen(Tail(corpus))

DocFreq(corpus, q) ==
    Cardinality({ i \in 1..Len(corpus) : Count(corpus[i], q) > 0 })

\* idf[q] = log(corpus_size + 1) - log(df); a word outside the corpus has none
Idf(corpus, q) ==
    IF DocFreq(corpus, q) = 0
    THEN 0
    ELSE LnMilli(Len(corpus) + 1) - LnMilli(DocFreq(corpus, q))

RECURSIVE Flatten(_)
Flatten(corpus) ==
    IF corpus = << >> THEN << >> ELSE Head(corpus) \o Flatten(Tail(corpus))

\* the idf dict of the model: one entry per word of the corpus
RECURSIVE IdfOfTokens(_, _, _)
IdfOfTokens(corpus, tokens, d) ==
    IF tokens = << >>
    THEN d
    ELSE IdfOfTokens(corpus, Tail(tokens),
                     IF DictHas(d, Head(tokens))
                     THEN d
                     ELSE DictPut(d, Head(tokens), Idf(corpus, Head(tokens))))

\* index.py:74  BM25Plus(self._tokenized_corpus): the model keeps the corpus
\* (term frequencies and document lengths), its total length (avgdl times
\* corpus size) and the idf of every word
BM25Plus(corpus) ==
    [corpus |-> corpus,
     total |-> TotalLen(corpus),
     idf |-> IdfOfTokens(corpus, Flatten(corpus), EmptyDict)]

\* delta + tf * (k1 + 1) / (k1 * (1 - b + b * dl / avgdl) + tf), in thousandths
\* (numerator and denominator multiplied by 8 * total length)
TfPart(model, q, idx) ==
    LET tf == Count(model.corpus[idx], q)
        dl == Len(model.corpus[idx])
        total == model.total
        n == Len(model.corpus)
    IN  1000 + (20000 * tf * total) \div (3 * total + 9 * dl * n + 8 * tf * total)

\* score += (self.idf.get(q) or 0) * (...) for q in query
RECURSIVE RawScore(_, _, _)
RawScore(model, tokens, idx) ==
    IF tokens = << >>
    THEN 0
    ELSE (DictGet(model.idf, Head(tokens), 0) * TfPart(model, Head(tokens), idx))
             \div 1000
         + RawScore(model, Tail(tokens), idx)

\* index.py:95  get_scores: one raw score per document of the model's corpus.
\* A corpus without any token has avgdl = 0 and every score is nan = 0 * 0/0,
\* for which raw_score > 0 is False as it is for 0; it is held as 0.
RECURSIVE ScoresUpTo(_, _, _)
ScoresUpTo(model, tokens, n) ==
    IF n = 0
    THEN << >>
    ELSE Append(ScoresUpTo(model, tokens, n - 1),
                IF model.total = 0 THEN 0 ELSE RawScore(model, tokens, n))

GetScores(model, tokens) == ScoresUpTo(model, tokens, Len(model.corpus))

-----------------------------------------------------------------------------
(* BM25Index *)

\* e^(-n) in units of 1/10000, n = 0..9; 0 beyond
ExpNegInt(n) ==
    IF n > 9 THEN 0 ELSE <<10000, 3679, 1353, 498, 183, 67, 25, 9, 3, 1>>[n + 1]

\* e^(-f/1000) in thousandths for 0 <= f < 1000 (Taylor, six terms)
ExpNegFrac(f) ==
    LET f2 == (f * f) \div 1000
    IN  1000 - f + f2 \div 2 - (f2 * f) \div 6000 + (f2 * f2) \div 24000
        - (((f2 * f2) \div 1000) * f) \div 120000

\* raw score (thousandths) from which 1.0 + exp(-raw) is 1.0 in binary64
SigmoidSaturation == 36737

_normalize_scoreRatio(raw) == (raw * 100000) \div (1000 + raw)

\* index.py:116  1.0 / (1.0 + math.exp(-raw_score)), in units of 1/100000
_normalize_score(raw) ==
    IF raw >= SigmoidSaturation
    THEN 100000
    ELSE IF raw >= 0
         THEN LET e == (ExpNegInt(raw \div 1000) * ExpNegFrac(raw % 1000)) \div 1000
                  v == 1000000000 \div (10000 + e)
              IN  IF v >= 100000 THEN 99999 ELSE v
         ELSE LET x == 0 - raw
                  e == (ExpNegInt(x \div 1000) * ExpNegFrac(x % 1000)) \div 1000
                  v == (10 * e * 10000) \div (10000 + e)
              IN  IF v <= 0 THEN 1 ELSE v

\* doc.get("metadata", {})
DocMetadata(doc) == IF doc.metadata = Absent THEN EmptyMeta ELSE doc.metadata

RECURSIVE ScoreLoopNonNegative(_, _, _, _)
ScoreLoopNonNegative(raw_scores, docs, idx, acc) ==
    IF idx > Len(raw_scores)
    THEN acc
    ELSE IF raw_scores[idx] >= 0
         THEN LET doc == docs[idx]
              IN  ScoreLoopNonNegative(raw_scores, docs, idx + 1,
                      Append(acc, [id |-> doc.id,
                                   content |-> doc.content,
                                   score |-> _normalize_score(raw_scores[idx]),
                                   metadata |-> DocMetadata(doc)]))
         ELSE ScoreLoopNonNegative(raw_scores, docs, idx + 1, acc)

RECURSIVE ScoreLoopFirstDoc(_, _, _, _)
ScoreLoopFirstDoc(raw_scores, docs, idx, acc) ==
    IF idx > Len(raw_scores)
    THEN acc
    ELSE IF raw_scores[idx] > 0
         THEN LET doc == docs[1]
              IN  ScoreLoopFirstDoc(raw_scores, docs, idx + 1,
                      Append(acc, [id |-> doc.id,
                                   content |-> doc.content,
                                   score |-> _normalize_score(raw_scores[idx]),
                                   metadata |-> DocMetadata(doc)]))
         ELSE ScoreLoopFirstDoc(raw_scores, docs, idx + 1, acc)

\* index.py:97-107: the loop over enumerate(raw_scores) from index idx
RECURSIVE ScoreLoop(_, _, _, _)
ScoreLoop(raw_scores, docs, idx, acc) ==
    IF idx > Len(raw_scores)
    THEN acc
    ELSE IF raw_scores[idx] > 0
         THEN LET doc == docs[idx]
              IN  ScoreLoop(raw_scores, docs, idx + 1,
                      Append(acc, [id |-> doc.id,
                                   content |-> doc.content,
                                   score |-> _normalize_score(raw_scores[idx]),
                                   metadata |-> DocMetadata(doc)]))
         ELSE ScoreLoop(raw_scores, docs, idx + 1, acc)

RECURSIVE InsertByScoreTiesFirst(_, _)
InsertByScoreTiesFirst(s, r) ==
    IF s = << >>
    THEN <<r>>
    ELSE IF Head(s).score > r.score
         THEN <<Head(s)>> \o InsertByScoreTiesFirst(Tail(s), r)
         ELSE <<r>> \o s

\* one step of the stable descending sort: r goes after every result whose
\* score is greater than or equal to its own
RECURSIVE InsertByScore(_, _)
InsertByScore(s, r) ==
    IF s = << >>
    THEN <<r>>
    ELSE IF Head(s).score >= r.score
         THEN <<Head(s)>> \o InsertByScore(Tail(s), r)
         ELSE <<r>> \o s

\* index.py:110  results.sort(key=score, reverse=True): descending, stable
RECURSIVE SortByScore(_, _)
SortByScore(rs, acc) ==
    IF rs = << >> THEN acc ELSE SortByScore(Tail(rs), InsertByScore(acc, Head(rs)))

ConsultsAnyQuery(docs, model, text) == ~(model = << >> \/ docs = << >>)

\* index.py:88-93: neither early return is taken, so that line 95 asks the
\* ranking model for scores
Consults(docs, model, text) ==
    /\ ~(model = << >> \/ docs = << >>)
    /\ Tokenize(text) # << >>

\* index.py:101  self._documents[idx] is an IndexError when the documents list
\* is shorter than the model's corpus and a score beyond its end is positive
SearchRaises(docs, model, text) ==
    /\ Consults(docs, model, text)
    /\ Len(docs) < Len(model[1].corpus)
    /\ LET raw_scores == GetScores(model[1], Tokenize(text))
       IN  \E idx \in (Len(docs) + 1)..Len(raw_scores) : raw_scores[idx] > 0

\* index.py:88-111 on the index state (docs, model), when nothing is raised
SearchResult(docs, model, text, k) ==
    IF ~Consults(docs, model, text)
    THEN << >>
    ELSE LET query_tokens == Tokenize(text)
             raw_scores == GetScores(model[1], query_tokens)
         IN  Slice(SortByScore(ScoreLoop(raw_scores, docs, 1, << >>), << >>), k)

\* index.py:42-45
document_count == Len(_documents)

BuildDocumentsExtend(old, docs) == old \o docs

\* index.py:55 / index.py:69  self._documents = documents
BuildDocuments(old, docs) == docs

BuildBm25KeepOnEmpty(old, docs, corpus) ==
    IF docs = << >> THEN old ELSE <<BM25Plus(corpus)>>

\* index.py:57 / index.py:74  self._bm25 = None / BM25Plus(self._tokenized_corpus)
BuildBm25(old, docs, corpus) ==
    IF docs = << >> THEN << >> ELSE <<BM25Plus(corpus)>>

\* index = BM25Index(tokenizer), index.py:34-40
IndexInit ==
    /\ _documents = << >>
    /\ _tokenized_corpus = << >>
    /\ _bm25 = << >>
    /\ query = << >>
    /\ search_k = 0
    /\ results = << >>
    /\ searched = FALSE
    /\ lastBuild = << >>
    /\ earlierDocs = {}
    /\ builds = 0
    /\ docsGen = 0
    /\ bm25Gen = 0
    /\ bpc = "idle"
    /\ bdocs = << >>
    /\ spc = "idle"
    /\ s_query_tokens = << >>
    /\ s_raw_scores = << >>
    /\ s_idx = 1
    /\ s_results = << >>
    /\ s_modelGen = 0
    /\ s_docGens = {}
    /\ s_outcome = "none"
    /\ documents = << >>
    /\ shared = FALSE
    /\ consulted = FALSE
    /\ search_raised = FALSE
    /\ tk = NoCollaborators
    /\ t_op = "none"
    /\ t_text = << >>
    /\ t_tokens = << >>
    /\ t_calls = << >>
    /\ b_texts = << >>
    /\ b_result = << >>
    /\ build_raised = FALSE
    /\ prior = NoPrior
    /\ stats = NoStats
    /\ calls = << >>
    /\ modules = NoModules
    /\ session_id = None
    /\ stream_pc = "none"
    /\ events = << >>
    /\ chunk_index = 0
    /\ final_session_id = None
    /\ merger = FALSE
    /\ alpha = 0
    /\ ctor = [called |-> FALSE, arg |-> 0, raised |-> FALSE]
    /\ dense_results = << >>
    /\ bm25_results = << >>
    /\ top_k = 0
    /\ merged = << >>
    /\ pc = "idle"
    /\ memo = NoMemo

\* index.build(docs), index.py:47-75; the caller drops its earlier results.
\* Line 55 stores a new empty list, line 69 the caller's own list object.
Build(docs) ==
    /\ IF docs = << >>
       THEN /\ _documents' = BuildDocuments(_documents, << >>)
            /\ _tokenized_corpus' = << >>
            /\ shared' = FALSE
       ELSE /\ _documents' = BuildDocuments(_documents, docs)
            /\ _tokenized_corpus' =
                   TokenizeBatch([i \in 1..Len(docs) |-> docs[i].content])
            /\ shared' = TRUE
    /\ _bm25' = BuildBm25(_bm25, docs, _tokenized_corpus')
    /\ documents' = docs
    /\ consulted' = FALSE
    /\ search_raised' = FALSE
    /\ lastBuild' = docs
    /\ earlierDocs' = earlierDocs \cup { lastBuild[i] : i \in 1..Len(lastBuild) }
    /\ searched' = FALSE
    /\ query' = << >>
    /\ search_k' = 0
    /\ results' = << >>
    /\ build_raised' = FALSE
    /\ prior' = NoPrior
    /\ UNCHANGED <<mergeVars, concVars, tokVars, serviceVars>>

\* results = index.search(text, top_k=k), index.py:77-111
Search(text, k) ==
    /\ query' = text
    /\ search_k' = k
    /\ consulted' = Consults(_documents, _bm25, text)
    /\ search_raised' = SearchRaises(_documents, _bm25, text)
    /\ results' = IF search_raised'
                  THEN << >>
                  ELSE SearchResult(_documents, _bm25, text, k)
    /\ searched' = ~search_raised'
    /\ UNCHANGED <<_documents, _tokenized_corpus, _bm25, lastBuild, earlierDocs>>
    /\ UNCHANGED <<documents, shared>>
    /\ UNCHANGED <<mergeVars, concVars, tokVars, failVars, serviceVars>>

IndexNext ==
    \/ \E docs \in ListsOf(DocPool, MaxDocs) : Build(docs)
    \/ \E text \in QueryPool, k \in 0..MaxSearchK : Search(text, k)

-----------------------------------------------------------------------------
(* Searches whose scores span the range: the queries of QueryPool that     *)
(* reach the ranking model, and one long query that repeats a word         *)

ScoreQueries ==
    { q \in QueryPool : Tokenize(q) # << >> }
        \cup { [i \in 1..24 |-> Morph("install", "NNG")] }

ScoreNext ==
    \/ \E docs \in ListsOf(DocPool, MaxDocs) : Build(docs)
    \/ \E text \in ScoreQueries : Search(text, MaxSearchK)

SpecScore == IndexInit /\ [][ScoreNext]_vars

-----------------------------------------------------------------------------
(* The caller changes, in place, the list it passed to build *)

\* what the index sees of a change of the caller's list
Seen(new) == IF shared THEN new ELSE _documents

\* documents.append(doc)
CallerAppend(doc) ==
    /\ Len(documents) < MaxDocs
    /\ documents' = Append(documents, doc)
    /\ _documents' = Seen(documents')
    /\ UNCHANGED <<_tokenized_corpus, _bm25, query, search_k, results, searched,
                   lastBuild, earlierDocs>>
    /\ UNCHANGED <<shared, consulted, search_raised>>
    /\ UNCHANGED <<mergeVars, concVars, tokVars, failVars, serviceVars>>

\* documents.pop()
CallerPop ==
    /\ documents # << >>
    /\ documents' = SubSeq(documents, 1, Len(documents) - 1)
    /\ _documents' = Seen(documents')
    /\ UNCHANGED <<_tokenized_corpus, _bm25, query, search_k, results, searched,
                   lastBuild, earlierDocs>>
    /\ UNCHANGED <<shared, consulted, search_raised>>
    /\ UNCHANGED <<mergeVars, concVars, tokVars, failVars, serviceVars>>

\* documents[i] = doc
CallerReplace(i, doc) ==
    /\ i \in 1..Len(documents)
    /\ documents[i] # doc
    /\ documents' = [documents EXCEPT ![i] = doc]
    /\ _documents' = Seen(documents')
    /\ UNCHANGED <<_tokenized_corpus, _bm25, query, search_k, results, searched,
                   lastBuild, earlierDocs>>
    /\ UNCHANGED <<shared, consulted, search_raised>>
    /\ UNCHANGED <<mergeVars, concVars, tokVars, failVars, serviceVars>>

\* the queries of two morphemes
SharedQueries == { q \in QueryPool : Len(q) = 2 }

SharedNext ==
    \/ \E docs \in ListsOf(DocPool, MaxDocs) : Build(docs)
    \/ \E text \in SharedQueries : Search(text, MaxSearchK)
    \/ \E doc \in DocPool : CallerAppend(doc)
    \/ CallerPop
    \/ \E i \in 1..MaxDocs, doc \in DocPool : CallerReplace(i, doc)

SpecShared == IndexInit /\ [][SharedNext]_vars

-----------------------------------------------------------------------------
(* build calls that raise *)

\* a content that is no str (an int such as 123): tokenizer.py:104 calls
\* text.strip() on it, which raises AttributeError
NotText == "123"

BadDoc == [id |-> "9", content |-> NotText, metadata |-> Absent]

\* index.py:71  tokenize_batch(contents) raises as soon as one content does
TokenizerRaises(docs) == \E i \in 1..Len(docs) : docs[i].content = NotText

IndexNow ==
    [documents |-> _documents, corpus |-> _tokenized_corpus, bm25 |-> _bm25]

\* index.build(docs) without rank_bm25 installed, index.py:61-67: the import
\* raises before any attribute is assigned
BuildImportError(docs) ==
    /\ docs # << >>
    /\ build_raised' = TRUE
    /\ prior' = IndexNow
    /\ UNCHANGED <<indexVars, callerVars>>
    /\ UNCHANGED <<mergeVars, concVars, tokVars, serviceVars>>

\* index.build(docs) whose tokenize_batch raises, index.py:69-71: line 69 has
\* assigned self._documents, lines 71 and 74 are never reached
BuildTokenizerRaises(docs) ==
    /\ docs # << >>
    /\ TokenizerRaises(docs)
    /\ build_raised' = TRUE
    /\ prior' = IndexNow
    /\ _documents' = BuildDocuments(_documents, docs)
    /\ documents' = docs
    /\ shared' = TRUE
    /\ consulted' = FALSE
    /\ search_raised' = FALSE
    /\ searched' = FALSE
    /\ query' = << >>
    /\ search_k' = 0
    /\ results' = << >>
    /\ UNCHANGED <<_tokenized_corpus, _bm25, lastBuild, earlierDocs>>
    /\ UNCHANGED <<mergeVars, concVars, tokVars, serviceVars>>

FailNext ==
    \/ \E docs \in ListsOf(DocPool, MaxDocs) : Build(docs)
    \/ \E docs \in ListsOf(DocPool, MaxDocs) : BuildImportError(docs)
    \/ \E docs \in ListsOf(DocPool \cup {BadDoc}, MaxDocs) :
          BuildTokenizerRaises(docs)
    \/ \E text \in SharedQueries : Search(text, MaxSearchK)

SpecFail == IndexInit /\ [][FailNext]_vars

-----------------------------------------------------------------------------------------------------------------------------------------------------
(* One thread building and one thread searching the same BM25Index, with   *)
(* no lock in build or search: every read or write of an attribute of the  *)
(* index is a step of its own.                                             *)

\* index.build(docs) is called, index.py:47
BuildCall(docs) ==
    /\ bpc = "idle"
    /\ builds < MaxBuilds
    /\ builds' = builds + 1
    /\ bdocs' = docs
    /\ bpc' = "documents"
    /\ lastBuild' = docs
    /\ earlierDocs' = earlierDocs \cup { lastBuild[i] : i \in 1..Len(lastBuild) }
    /\ searched' = FALSE
    /\ UNCHANGED <<_documents, _tokenized_corpus, _bm25, query, search_k, results>>
    /\ UNCHANGED <<docsGen, bm25Gen, spc, s_query_tokens, s_raw_scores, s_idx,
                   s_results, s_modelGen, s_docGens, s_outcome>>
    /\ UNCHANGED <<mergeVars, callerVars, tokVars, failVars, serviceVars>>

\* index.py:55 / index.py:69  self._documents = ...
BuildStoreDocuments ==
    /\ bpc = "documents"
    /\ _documents' = BuildDocuments(_documents, bdocs)
    /\ docsGen' = builds
    /\ bpc' = "corpus"
    /\ UNCHANGED <<_tokenized_corpus, _bm25, query, search_k, results, searched,
                   lastBuild, earlierDocs>>
    /\ UNCHANGED <<builds, bm25Gen, bdocs, spc, s_query_tokens, s_raw_scores,
                   s_idx, s_results, s_modelGen, s_docGens, s_outcome>>
    /\ UNCHANGED <<mergeVars, callerVars, tokVars, failVars, serviceVars>>

\* index.py:56 / index.py:70-71  self._tokenized_corpus = ...
BuildStoreCorpus ==
    /\ bpc = "corpus"
    /\ _tokenized_corpus' =
           IF bdocs = << >>
           THEN << >>
           ELSE TokenizeBatch([i \in 1..Len(bdocs) |-> bdocs[i].content])
    /\ bpc' = "model"
    /\ UNCHANGED <<_documents, _bm25, query, search_k, results, searched,
                   lastBuild, earlierDocs>>
    /\ UNCHANGED <<builds, docsGen, bm25Gen, bdocs, spc, s_query_tokens,
                   s_raw_scores, s_idx, s_results, s_modelGen, s_docGens,
                   s_outcome>>
    /\ UNCHANGED <<mergeVars, callerVars, tokVars, failVars, serviceVars>>

\* index.py:57 / index.py:74  self._bm25 = ...; build returns
BuildStoreModel ==
    /\ bpc = "model"
    /\ _bm25' = IF bdocs = << >> THEN << >> ELSE <<BM25Plus(_tokenized_corpus)>>
    /\ bm25Gen' = builds
    /\ bpc' = "idle"
    /\ UNCHANGED <<_documents, _tokenized_corpus, query, search_k, results,
                   searched, lastBuild, earlierDocs>>
    /\ UNCHANGED <<builds, docsGen, bdocs, spc, s_query_tokens, s_raw_scores,
                   s_idx, s_results, s_modelGen, s_docGens, s_outcome>>
    /\ UNCHANGED <<mergeVars, callerVars, tokVars, failVars, serviceVars>>

\* the search call ends: it returns rs or raises
SearchEnds(rs, outcome) ==
    /\ results' = rs
    /\ s_outcome' = outcome
    /\ spc' = "idle"
    /\ searched' = (outcome = "returned" /\ bpc = "idle")

\* index.search(text, top_k=k) is called, index.py:77
SearchCall(text, k) ==
    /\ spc = "idle"
    /\ query' = text
    /\ search_k' = k
    /\ spc' = "check_bm25"
    /\ s_query_tokens' = << >>
    /\ s_raw_scores' = << >>
    /\ s_idx' = 1
    /\ s_results' = << >>
    /\ s_modelGen' = 0
    /\ s_docGens' = {}
    /\ s_outcome' = "none"
    /\ searched' = FALSE
    /\ UNCHANGED <<_documents, _tokenized_corpus, _bm25, results, lastBuild,
                   earlierDocs>>
    /\ UNCHANGED <<builds, docsGen, bm25Gen, bpc, bdocs>>
    /\ UNCHANGED <<mergeVars, callerVars, tokVars, failVars, serviceVars>>

\* index.py:88  if self._bm25 is None ...: return []
SearchCheckBm25 ==
    /\ spc = "check_bm25"
    /\ IF _bm25 = << >>
       THEN SearchEnds(<< >>, "returned")
       ELSE /\ spc' = "check_documents"
            /\ UNCHANGED <<results, s_outcome, searched>>
    /\ UNCHANGED <<_documents, _tokenized_corpus, _bm25, query, search_k,
                   lastBuild, earlierDocs>>
    /\ UNCHANGED <<builds, docsGen, bm25Gen, bpc, bdocs, s_query_tokens,
                   s_raw_scores, s_idx, s_results, s_modelGen, s_docGens>>
    /\ UNCHANGED <<mergeVars, callerVars, tokVars, failVars, serviceVars>>

\* index.py:88  ... or not self._documents: return []
\* index.py:91-93  query_tokens = tokenize(query); if not query_tokens: return []
SearchCheckDocuments ==
    /\ spc = "check_documents"
    /\ IF _documents = << >> \/ Tokenize(query) = << >>
       THEN /\ SearchEnds(<< >>, "returned")
            /\ UNCHANGED s_query_tokens
       ELSE /\ s_query_tokens' = Tokenize(query)
            /\ spc' = "scores"
            /\ UNCHANGED <<results, s_outcome, searched>>
    /\ UNCHANGED <<_documents, _tokenized_corpus, _bm25, query, search_k,
                   lastBuild, earlierDocs>>
    /\ UNCHANGED <<builds, docsGen, bm25Gen, bpc, bdocs, s_raw_scores, s_idx,
                   s_results, s_modelGen, s_docGens>>
    /\ UNCHANGED <<mergeVars, callerVars, tokVars, failVars, serviceVars>>

\* index.py:95  raw_scores = self._bm25.get_scores(query_tokens)
\* (AttributeError when self._bm25 has become None)
SearchGetScores ==
    /\ spc = "scores"
    /\ IF _bm25 = << >>
       THEN /\ SearchEnds(results, "raised")
            /\ UNCHANGED <<s_raw_scores, s_modelGen>>
       ELSE /\ s_raw_scores' = GetScores(_bm25[1], s_query_tokens)
            /\ s_modelGen' = bm25Gen
            /\ spc' = "loop"
            /\ UNCHANGED <<results, s_outcome, searched>>
    /\ UNCHANGED <<_documents, _tokenized_corpus, _bm25, query, search_k,
                   lastBuild, earlierDocs>>
    /\ UNCHANGED <<builds, docsGen, bm25Gen, bpc, bdocs, s_query_tokens, s_idx,
                   s_results, s_docGens>>
    /\ UNCHANGED <<mergeVars, callerVars, tokVars, failVars, serviceVars>>

\* index.py:98-107  one iteration of the loop over enumerate(raw_scores)
\* (IndexError when self._documents has become shorter than raw_scores)
SearchLoopStep ==
    /\ spc = "loop"
    /\ s_idx <= Len(s_raw_scores)
    /\ IF s_raw_scores[s_idx] > 0
       THEN IF s_idx > Len(_documents)
            THEN /\ SearchEnds(results, "raised")
                 /\ UNCHANGED <<s_idx, s_results, s_docGens>>
            ELSE /\ s_results' =
                        ScoreLoop(<<s_raw_scores[s_idx]>>, <<_documents[s_idx]>>,
                                  1, s_results)
                 /\ s_docGens' = s_docGens \cup {docsGen}
                 /\ s_idx' = s_idx + 1
                 /\ UNCHANGED <<results, s_outcome, spc, searched>>
       ELSE /\ s_idx' = s_idx + 1
            /\ UNCHANGED <<results, s_outcome, spc, searched, s_results, s_docGens>>
    /\ UNCHANGED <<_documents, _tokenized_corpus, _bm25, query, search_k,
                   lastBuild, earlierDocs>>
    /\ UNCHANGED <<builds, docsGen, bm25Gen, bpc, bdocs, s_query_tokens,
                   s_raw_scores, s_modelGen>>
    /\ UNCHANGED <<mergeVars, callerVars, tokVars, failVars, serviceVars>>

\* index.py:110-111  results.sort(...); return results[:top_k]
SearchReturn ==
    /\ spc = "loop"
    /\ s_idx > Len(s_raw_scores)
    /\ SearchEnds(Slice(SortByScore(s_results, << >>), search_k), "returned")
    /\ UNCHANGED <<_documents, _tokenized_corpus, _bm25, query, search_k,
                   lastBuild, earlierDocs>>
    /\ UNCHANGED <<builds, docsGen, bm25Gen, bpc, bdocs, s_query_tokens,
                   s_raw_scores, s_idx, s_results, s_modelGen, s_docGens>>
    /\ UNCHANGED <<mergeVars, callerVars, tokVars, failVars, serviceVars>>

ConcNext ==
    \/ \E docs \in ListsOf(DocPool, MaxDocs) : BuildCall(docs)
    \/ BuildStoreDocuments
    \/ BuildStoreCorpus
    \/ BuildStoreModel
    \/ \E text \in QueryPool : SearchCall(text, MaxSearchK)
    \/ SearchCheckBm25
    \/ SearchCheckDocuments
    \/ SearchGetScores
    \/ SearchLoopStep
    \/ SearchReturn

SpecConc == IndexInit /\ [][ConcNext]_vars

-----
(* Actions of the merger and its caller *)

MergeInit ==
    /\ merger = FALSE
    /\ alpha = 0
    /\ ctor = [called |-> FALSE, arg |-> 0, raised |-> FALSE]
    /\ dense_results \in ListsOf(DenseEntries, MaxDense)
    /\ bm25_results \in ListsOf(KeywordEntries, MaxKeyword)
    /\ top_k = 0
    /\ merged = << >>
    /\ pc = "idle"
    /\ memo = NoMemo
    /\ _documents = << >>
    /\ _tokenized_corpus = << >>
    /\ _bm25 = << >>
    /\ query = << >>
    /\ search_k = 0
    /\ results = << >>
    /\ searched = FALSE
    /\ lastBuild = << >>
    /\ earlierDocs = {}
    /\ builds = 0
    /\ docsGen = 0
    /\ bm25Gen = 0
    /\ bpc = "idle"
    /\ bdocs = << >>
    /\ spc = "idle"
    /\ s_query_tokens = << >>
    /\ s_raw_scores = << >>
    /\ s_idx = 1
    /\ s_results = << >>
    /\ s_modelGen = 0
    /\ s_docGens = {}
    /\ s_outcome = "none"
    /\ documents = << >>
    /\ shared = FALSE
    /\ consulted = FALSE
    /\ search_raised = FALSE
    /\ tk = NoCollaborators
    /\ t_op = "none"
    /\ t_text = << >>
    /\ t_tokens = << >>
    /\ t_calls = << >>
    /\ b_texts = << >>
    /\ b_result = << >>
    /\ build_raised = FALSE
    /\ prior = NoPrior
    /\ stats = NoStats
    /\ calls = << >>
    /\ modules = NoModules
    /\ session_id = None
    /\ stream_pc = "none"
    /\ events = << >>
    /\ chunk_index = 0
    /\ final_session_id = None

\* HybridMerger(alpha=a), hybrid_merger.py:34-38
Construct(a) ==
    /\ ~merger
    /\ IF AlphaInRange(a)
       THEN /\ merger' = TRUE
            /\ alpha' = a
            /\ ctor' = [called |-> TRUE, arg |-> a, raised |-> FALSE]
       ELSE /\ UNCHANGED <<merger, alpha>>
            /\ ctor' = [called |-> TRUE, arg |-> a, raised |-> TRUE]
    /\ UNCHANGED <<dense_results, bm25_results, top_k, merged, pc, memo>>
    /\ UNCHANGED <<indexVars, concVars, callerVars, tokVars, failVars,
                   serviceVars>>

\* the kept copy of an earlier call notes the calls made after it: "other" once
\* a call with different arguments was made, "again" once the kept call was
\* repeated after such a call
NoteCall(m, dense, keyword, k) ==
    IF m = NoMemo
    THEN m
    ELSE LET same == m[1].dense = dense /\ m[1].bm25 = keyword /\ m[1].top_k = k
         IN  <<[m[1] EXCEPT !.other = (@ \/ ~same),
                            !.again = (@ \/ (same /\ m[1].other))]>>

\* merged = merger.merge(dense_results, bm25_results, top_k=k)
Merge(k) ==
    /\ merger
    /\ top_k' = k
    /\ merged' = MergeResult(alpha, dense_results, bm25_results, k)
    /\ pc' = "returned"
    /\ memo' = NoteCall(memo, dense_results, bm25_results, k)
    /\ UNCHANGED <<merger, alpha, ctor, dense_results, bm25_results>>
    /\ UNCHANGED <<indexVars, concVars, callerVars, tokVars, failVars,
                   serviceVars>>

MergeNext ==
    \/ \E a \in AlphaArgs : Construct(a)
    \/ \E k \in 0..MaxTopK : Merge(k)

-----------------------------------------------------------------------------
(* A caller that reuses one default merger, HybridMerger(), on changing lists *)

\* hybrid_merger.py:34  alpha: float = 0.6
DefaultAlpha == 6

PureDense == { e \in DenseEntries : e.content \in {"A-dense", "B"} }

PureKeyword == { e \in KeywordEntries : e.content \in {"A-kw", "C-kw"} }

PureInit ==
    /\ merger = TRUE
    /\ alpha = DefaultAlpha
    /\ ctor = [called |-> TRUE, arg |-> DefaultAlpha, raised |-> FALSE]
    /\ dense_results \in ListsOf(PureDense, MaxPure)
    /\ bm25_results \in ListsOf(PureKeyword, MaxPure)
    /\ top_k = 0
    /\ merged = << >>
    /\ pc = "idle"
    /\ memo = NoMemo
    /\ _documents = << >>
    /\ _tokenized_corpus = << >>
    /\ _bm25 = << >>
    /\ query = << >>
    /\ search_k = 0
    /\ results = << >>
    /\ searched = FALSE
    /\ lastBuild = << >>
    /\ earlierDocs = {}
    /\ builds = 0
    /\ docsGen = 0
    /\ bm25Gen = 0
    /\ bpc = "idle"
    /\ bdocs = << >>
    /\ spc = "idle"
    /\ s_query_tokens = << >>
    /\ s_raw_scores = << >>
    /\ s_idx = 1
    /\ s_results = << >>
    /\ s_modelGen = 0
    /\ s_docGens = {}
    /\ s_outcome = "none"
    /\ documents = << >>
    /\ shared = FALSE
    /\ consulted = FALSE
    /\ search_raised = FALSE
    /\ tk = NoCollaborators
    /\ t_op = "none"
    /\ t_text = << >>
    /\ t_tokens = << >>
    /\ t_calls = << >>
    /\ b_texts = << >>
    /\ b_result = << >>
    /\ build_raised = FALSE
    /\ prior = NoPrior
    /\ stats = NoStats
    /\ calls = << >>
    /\ modules = NoModules
    /\ session_id = None
    /\ stream_pc = "none"
    /\ events = << >>
    /\ chunk_index = 0
    /\ final_session_id = None

\* the caller builds a new dense list and drops the previous return value
NewDense(d) ==
    /\ dense_results' = d
    /\ pc' = "idle"
    /\ top_k' = 0
    /\ merged' = << >>
    /\ UNCHANGED <<merger, alpha, ctor, bm25_results, memo>>
    /\ UNCHANGED <<indexVars, concVars, callerVars, tokVars, failVars,
                   serviceVars>>

\* the caller builds a new keyword list
NewKeyword(k) ==
    /\ bm25_results' = k
    /\ pc' = "idle"
    /\ top_k' = 0
    /\ merged' = << >>
    /\ UNCHANGED <<merger, alpha, ctor, dense_results, memo>>
    /\ UNCHANGED <<indexVars, concVars, callerVars, tokVars, failVars,
                   serviceVars>>

\* the caller keeps a copy of one call's inputs and result
KeepCopy ==
    /\ pc = "returned"
    /\ memo = NoMemo
    /\ memo' = <<[dense |-> dense_results, bm25 |-> bm25_results,
                  top_k |-> top_k, merged |-> merged,
                  other |-> FALSE, again |-> FALSE]>>
    /\ UNCHANGED <<merger, alpha, ctor, dense_results, bm25_results, top_k,
                   merged, pc>>
    /\ UNCHANGED <<indexVars, concVars, callerVars, tokVars, failVars,
                   serviceVars>>

PureNext ==
    \/ \E k \in 0..MaxPure : Merge(k)
    \/ \E d \in ListsOf(PureDense, MaxPure) : NewDense(d)
    \/ \E k \in ListsOf(PureKeyword, MaxPure) : NewKeyword(k)
    \/ KeepCopy

SpecPure ==
    PureInit /\ [][PureNext]_vars

-----------------------------------------------------------------------------
(* Calls of tokenize and tokenize_batch on one tokenizer *)

TextPool ==
    { << >>,
      <<Space>>,
      <<Morph("ul", "JKO")>>,
      <<Morph("rag", "SL"), Space, Morph("api", "NNG"), Morph("ul", "JKO"),
        Space, Morph("install", "NNG")>>,
      <<Morph("setup", "NNG"), Space, Morph("install", "NNG"),
        Morph("ul", "JKO"), Space, Morph("install", "NNG")>>,
      <<Morph("guide", "NNG"), Morph("nun", "JX"), Space, Morph("thing", "NNB")>> }

\* tokenizer = KoreanTokenizer(stopword_filter, synonym_manager, user_dictionary)
TokInit ==
    /\ merger = FALSE
    /\ alpha = 0
    /\ ctor = [called |-> FALSE, arg |-> 0, raised |-> FALSE]
    /\ dense_results = << >>
    /\ bm25_results = << >>
    /\ top_k = 0
    /\ merged = << >>
    /\ pc = "idle"
    /\ memo = NoMemo
    /\ _documents = << >>
    /\ _tokenized_corpus = << >>
    /\ _bm25 = << >>
    /\ query = << >>
    /\ search_k = 0
    /\ results = << >>
    /\ searched = FALSE
    /\ lastBuild = << >>
    /\ earlierDocs = {}
    /\ builds = 0
    /\ docsGen = 0
    /\ bm25Gen = 0
    /\ bpc = "idle"
    /\ bdocs = << >>
    /\ spc = "idle"
    /\ s_query_tokens = << >>
    /\ s_raw_scores = << >>
    /\ s_idx = 1
    /\ s_results = << >>
    /\ s_modelGen = 0
    /\ s_docGens = {}
    /\ s_outcome = "none"
    /\ documents = << >>
    /\ shared = FALSE
    /\ consulted = FALSE
    /\ search_raised = FALSE
    /\ tk \in Tokenizers
    /\ t_op = "none"
    /\ t_text = << >>
    /\ t_tokens = << >>
    /\ t_calls = << >>
    /\ b_texts = << >>
    /\ b_result = << >>
    /\ build_raised = FALSE
    /\ prior = NoPrior
    /\ stats = NoStats
    /\ calls = << >>
    /\ modules = NoModules
    /\ session_id = None
    /\ stream_pc = "none"
    /\ events = << >>
    /\ chunk_index = 0
    /\ final_session_id = None

\* t_tokens = tokenizer.tokenize(text)
TokenizeCall(text) ==
    /\ t_op' = "tokenize"
    /\ t_text' = text
    /\ t_tokens' = TokenizeWith(tk, text).tokens
    /\ t_calls' = TokenizeWith(tk, text).calls
    /\ b_texts' = << >>
    /\ b_result' = << >>
    /\ UNCHANGED tk
    /\ UNCHANGED <<mergeVars, indexVars, concVars, callerVars, failVars,
                   serviceVars>>

\* b_result = tokenizer.tokenize_batch(texts)
TokenizeBatchCall(texts) ==
    /\ t_op' = "tokenize_batch"
    /\ b_texts' = texts
    /\ b_result' = TokenizeBatchWith(tk, texts).result
    /\ t_calls' = TokenizeBatchWith(tk, texts).calls
    /\ t_text' = << >>
    /\ t_tokens' = << >>
    /\ UNCHANGED tk
    /\ UNCHANGED <<mergeVars, indexVars, concVars, callerVars, failVars,
                   serviceVars>>

TokNext ==
    \/ \E text \in TextPool : TokenizeCall(text)
    \/ \E texts \in ListsOf(TextPool, MaxBatch) : TokenizeBatchCall(texts)

SpecTok == TokInit /\ [][TokNext]_vars

-----------------------------------------------------------------------------
(* CohereReranker (rerankers/cohere_reranker.py).  rerank is a coroutine:  *)
(* a call runs to the awaited client.post, other calls may start or finish *)
(* meanwhile, and it goes on when the post returns or raises.  A call that *)
(* is cancelled while it waits is not modelled.                            *)

\* SearchResult objects handed to rerank, scores in hundredths
ResultPool ==
    << [id |-> "doc1", content |-> "Python programming", score |-> 70,
        metadata |-> "doc1.txt"],
       [id |-> "doc2", content |-> "Java programming", score |-> 60,
        metadata |-> "doc2.txt"],
       [id |-> "doc3", content |-> "Go programming", score |-> 50,
        metadata |-> "doc3.txt"] >>

ResultsArgs ==
    { SubSeq(ResultPool, 1, n) : n \in 0..Min(MaxResults, Len(ResultPool)) }

\* top_n: << >> for None, <<n>> for the int n
TopNArgs == {<< >>, <<1>>}

Rank(i, s) == [index |-> i, relevance_score |-> s]

\* a response body: its "results" list, when it has that key
Body(rank_results) == [has_results |-> TRUE, rank_results |-> rank_results]

\* a response body without the "results" key
NoResultsKey == [has_results |-> FALSE, rank_results |-> << >>]

NoBody == NoResultsKey

\* bodies of a 200 response
ResponsePool ==
    { NoResultsKey,
      Body(<< >>),
      Body(<<Rank(0, 90)>>),
      Body(<<Rank(1, 95), Rank(0, 85)>>),
      Body(<<Rank(0, 95), Rank(3, 85)>>),
      Body(<<Rank(0, 95), Rank(-1, 85)>>),
      Body(<<Rank(-4, 90)>>) }

\* what the awaited post does: raises one of the three kinds the except
\* clauses tell apart, or returns a response
PostErrors == {"http_status_error", "timeout", "exception"}

\* list[i] of Python: i counts from 0, a negative i from the end; anything
\* else is an IndexError
PyIndexOk(list, i) == 0 - Len(list) <= i /\ i < Len(list)

PyGet(list, i) == IF i >= 0 THEN list[i + 1] ELSE list[Len(list) + i + 1]

\* cohere_reranker.py:101-112  the top_n of the request
RequestTopN(rs, top_n) ==
    LET effective_top_n == IF top_n = << >> THEN Len(rs) ELSE top_n[1]
    IN  Min(effective_top_n, Len(rs))

\* cohere_reranker.py:105-114
Request(rs, top_n) ==
    [documents |-> [i \in 1..Len(rs) |-> rs[i].content],
     top_n |-> RequestTopN(rs, top_n)]

\* cohere_reranker.py:140-153, the loop over rerank_response["results"] from
\* position i: stops at the first index that results[...] rejects
RECURSIVE RebuildLoop(_, _, _, _)
RebuildLoop(rank_results, rs, i, reranked_results) ==
    IF i > Len(rank_results)
    THEN [raised |-> FALSE, reranked_results |-> reranked_results]
    ELSE LET original_idx == rank_results[i].index
         IN  IF ~PyIndexOk(rs, original_idx)
             THEN [raised |-> TRUE, reranked_results |-> reranked_results]
             ELSE LET original_result == PyGet(rs, original_idx)
                  IN  RebuildLoop(rank_results, rs, i + 1,
                          Append(reranked_results,
                                 [id |-> original_result.id,
                                  content |-> original_result.content,
                                  score |-> rank_results[i].relevance_score,
                                  metadata |-> original_result.metadata]))

FallbackPartial(rs, reranked_results) == reranked_results

\* cohere_reranker.py:167, 172, 177  return results
Fallback(rs, reranked_results) == rs

Bump(st, key) == [st EXCEPT ![key] = @ + 1]

\* cohere_reranker.py:98
CountRequest(st) == Bump(st, "total_requests")

\* cohere_reranker.py:155
CountSuccess(st) == Bump(st, "successful_requests")

CountFailureForgotten(st) == st

\* cohere_reranker.py:163, 170, 175
CountFailure(st) == Bump(st, "failed_requests")

\* cohere_reranker.py:129-177 once the post has raised (reply.kind names the
\* exception) or returned (reply.kind = "response"): the except clause or
\* the return that ends the call, and the value returned
Handle(rs, reply) ==
    IF reply.kind # "response"
    THEN [outcome |-> reply.kind, returned |-> Fallback(rs, << >>)]
    ELSE IF ~reply.body.has_results
         THEN [outcome |-> "exception", returned |-> Fallback(rs, << >>)]
         ELSE LET r == RebuildLoop(reply.body.rank_results, rs, 1, << >>)
              IN  IF r.raised
                  THEN [outcome |-> "exception",
                        returned |-> Fallback(rs, r.reranked_results)]
                  ELSE [outcome |-> "success", returned |-> r.reranked_results]

\* reranker = CohereReranker(api_key), cohere_reranker.py:36-67
RerankInit ==
    /\ merger = FALSE
    /\ alpha = 0
    /\ ctor = [called |-> FALSE, arg |-> 0, raised |-> FALSE]
    /\ dense_results = << >>
    /\ bm25_results = << >>
    /\ top_k = 0
    /\ merged = << >>
    /\ pc = "idle"
    /\ memo = NoMemo
    /\ _documents = << >>
    /\ _tokenized_corpus = << >>
    /\ _bm25 = << >>
    /\ query = << >>
    /\ search_k = 0
    /\ results = << >>
    /\ searched = FALSE
    /\ lastBuild = << >>
    /\ earlierDocs = {}
    /\ builds = 0
    /\ docsGen = 0
    /\ bm25Gen = 0
    /\ bpc = "idle"
    /\ bdocs = << >>
    /\ spc = "idle"
    /\ s_query_tokens = << >>
    /\ s_raw_scores = << >>
    /\ s_idx = 1
    /\ s_results = << >>
    /\ s_modelGen = 0
    /\ s_docGens = {}
    /\ s_outcome = "none"
    /\ documents = << >>
    /\ shared = FALSE
    /\ consulted = FALSE
    /\ search_raised = FALSE
    /\ tk = NoCollaborators
    /\ t_op = "none"
    /\ t_text = << >>
    /\ t_tokens = << >>
    /\ t_calls = << >>
    /\ b_texts = << >>
    /\ b_result = << >>
    /\ build_raised = FALSE
    /\ prior = NoPrior
    /\ stats = NoStats
    /\ calls = << >>
    /\ modules = NoModules
    /\ session_id = None
    /\ stream_pc = "none"
    /\ events = << >>
    /\ chunk_index = 0
    /\ final_session_id = None

\* no request was sent / the post has not come back
NoRequest == << >>

NoReply == [kind |-> "none", body |-> NoBody]

\* await reranker.rerank(query, rs, top_n) is called: an empty list returns
\* at once (lines 94-96), any other list is counted and sent (lines 98-129)
RerankCall(rs, top_n) ==
    /\ Len(calls) < MaxCalls
    /\ IF rs = << >>
       THEN /\ calls' = Append(calls, [results |-> rs, top_n |-> top_n,
                                        pc |-> "returned", outcome |-> "empty",
                                        request |-> NoRequest,
                                        reply |-> NoReply,
                                        returned |-> << >>])
            /\ UNCHANGED stats
       ELSE /\ calls' = Append(calls, [results |-> rs, top_n |-> top_n,
                                        pc |-> "awaiting", outcome |-> "none",
                                        request |-> <<Request(rs, top_n)>>,
                                        reply |-> NoReply,
                                        returned |-> << >>])
            /\ stats' = CountRequest(stats)
    /\ UNCHANGED <<mergeVars, indexVars, concVars, callerVars, tokVars, failVars,
                   streamVars>>

\* call c goes on after its post: the rest of rerank, lines 129-177
Resume(c, reply) ==
    LET h == Handle(calls[c].results, reply)
    IN  /\ calls' = [calls EXCEPT ![c] = [@ EXCEPT !.pc = "returned",
                                                    !.outcome = h.outcome,
                                                    !.reply = reply,
                                                    !.returned = h.returned]]
        /\ stats' = IF h.outcome = "success"
                    THEN CountSuccess(stats)
                    ELSE CountFailure(stats)

\* the post of call c (or raise_for_status on its response) raises
PostRaises(c, kind) ==
    /\ c \in 1..Len(calls)
    /\ calls[c].pc = "awaiting"
    /\ Resume(c, [kind |-> kind, body |-> NoBody])
    /\ UNCHANGED <<mergeVars, indexVars, concVars, callerVars, tokVars, failVars,
                   streamVars>>

\* the post of call c returns a 200 response with this body
PostReturns(c, body) ==
    /\ c \in 1..Len(calls)
    /\ calls[c].pc = "awaiting"
    /\ Resume(c, [kind |-> "response", body |-> body])
    /\ UNCHANGED <<mergeVars, indexVars, concVars, callerVars, tokVars, failVars,
                   streamVars>>

RerankNext ==
    \/ \E rs \in ResultsArgs, top_n \in TopNArgs : RerankCall(rs, top_n)
    \/ \E c \in 1..MaxCalls, kind \in PostErrors : PostRaises(c, kind)
    \/ \E c \in 1..MaxCalls, body \in ResponsePool : PostReturns(c, body)

SpecRerank == RerankInit /\ [][RerankNext]_vars

-----------------------------------------------------------------------------
(* ChatService.stream_rag_pipeline (api/services/chat_service.py), an      *)
(* async generator: every action is one resumption by the consumer, from   *)
(* the yield the generator stands at to the next yield or to its end.  The *)
(* session, retrieval and generation modules are collaborators; what they  *)
(* return or raise is chosen by the action's parameters.                   *)

\* self.modules and self.config of the service: which modules it has, whether
\* reranking is switched on (and the retrieval module can rerank), and
\* whether the generation module is missing ("none"), has no stream_answer
\* ("plain") or streams ("streaming")
ModuleSets ==
    [session : BOOLEAN, retrieval : BOOLEAN, reranking : BOOLEAN,
     generation : {"none", "plain", "streaming"}]

SessionIdArgs == {None, "test-123"}

\* get_session / create_session / get_context_string: the session is valid,
\* is not valid (a new one is created), or one of the calls raises
SessionOutcomes == {"valid", "invalid", "raises"}

\* retrieval_module.search raises, returns None, returns [] or returns
\* documents
SearchOutcomes == {"raises", "none", "empty", "found"}

\* retrieval_module.rerank raises, or returns documents of which the
\* min_score filter keeps all or none
RerankOutcomes == {"raises", "kept", "filtered"}

\* number of documents a successful search returns
FoundDocuments == 2

MetadataEvent(sid, search_results, ranked_results, reranking_applied) ==
    [event |-> "metadata", session_id |-> sid, search_results |-> search_results,
     ranked_results |-> ranked_results, reranking_applied |-> reranking_applied,
     chunk_index |-> 0, total_chunks |-> 0, error_code |-> ""]

ChunkEvent(index) ==
    [event |-> "chunk", session_id |-> "", search_results |-> 0,
     ranked_results |-> 0, reranking_applied |-> FALSE,
     chunk_index |-> index, total_chunks |-> 0, error_code |-> ""]

DoneEvent(sid, total) ==
    [event |-> "done", session_id |-> sid, search_results |-> 0,
     ranked_results |-> 0, reranking_applied |-> FALSE,
     chunk_index |-> 0, total_chunks |-> total, error_code |-> ""]

ErrorEvent(code) ==
    [event |-> "error", session_id |-> "", search_results |-> 0,
     ranked_results |-> 0, reranking_applied |-> FALSE,
     chunk_index |-> 0, total_chunks |-> 0, error_code |-> code]

\* chat_service.py:381-405  final_session_id after the session step
FinalSessionId(mods, sid, sess) ==
    IF mods.session
    THEN IF sid # None /\ sess = "valid" THEN sid ELSE "created"
    ELSE IF sid # None THEN sid ELSE "uuid4"

\* chat_service.py:383-401: a session call raises
SessionRaises(mods, sess) == mods.session /\ sess = "raises"

\* chat_service.py:413-417, 470: search returned None, which line 417
\* rejects inside the try block and line 470 outside of it
SearchUnsized(mods, srch) == mods.retrieval /\ srch = "none"

\* chat_service.py:408-419  len(search_results)
SearchResults(mods, srch) ==
    IF mods.retrieval /\ srch = "found" THEN FoundDocuments ELSE 0

\* chat_service.py:425-434: the rerank call is made
Reranks(mods, srch) ==
    SearchResults(mods, srch) > 0 /\ mods.reranking /\ mods.retrieval

\* chat_service.py:435-459  len(reranked_documents) and reranking_applied
RankedResults(mods, srch, rr) ==
    IF Reranks(mods, srch) /\ rr = "filtered"
    THEN 0
    ELSE SearchResults(mods, srch)

RerankingApplied(mods, srch, rr) == Reranks(mods, srch) /\ rr # "raises"

ResumedIndexSame(at, index) == index

\* chat_service.py:505  chunk_index += 1, the first statement run when the
\* generator is resumed from the yield of a chunk
ResumedIndex(at, index) == IF at = "chunk" THEN index + 1 ELSE index

PcAfterGenerationErrorGoesOn == "chunk"

\* chat_service.py:509-514  the error event is yielded and the next
\* resumption runs return
PcAfterGenerationError == "error"

RECURSIVE Chunks(_)
\* the chunk events of a sequence of events, in emission order
Chunks(evs) ==
    IF evs = << >>
    THEN << >>
    ELSE IF Head(evs).event = "chunk"
         THEN <<Head(evs)>> \o Chunks(Tail(evs))
         ELSE Chunks(Tail(evs))

ChunksEmitted == Len(Chunks(events))

\* service = ChatService(modules, config)
StreamInit ==
    /\ merger = FALSE
    /\ alpha = 0
    /\ ctor = [called |-> FALSE, arg |-> 0, raised |-> FALSE]
    /\ dense_results = << >>
    /\ bm25_results = << >>
    /\ top_k = 0
    /\ merged = << >>
    /\ pc = "idle"
    /\ memo = NoMemo
    /\ _documents = << >>
    /\ _tokenized_corpus = << >>
    /\ _bm25 = << >>
    /\ query = << >>
    /\ search_k = 0
    /\ results = << >>
    /\ searched = FALSE
    /\ lastBuild = << >>
    /\ earlierDocs = {}
    /\ builds = 0
    /\ docsGen = 0
    /\ bm25Gen = 0
    /\ bpc = "idle"
    /\ bdocs = << >>
    /\ spc = "idle"
    /\ s_query_tokens = << >>
    /\ s_raw_scores = << >>
    /\ s_idx = 1
    /\ s_results = << >>
    /\ s_modelGen = 0
    /\ s_docGens = {}
    /\ s_outcome = "none"
    /\ documents = << >>
    /\ shared = FALSE
    /\ consulted = FALSE
    /\ search_raised = FALSE
    /\ tk = NoCollaborators
    /\ t_op = "none"
    /\ t_text = << >>
    /\ t_tokens = << >>
    /\ t_calls = << >>
    /\ b_texts = << >>
    /\ b_result = << >>
    /\ build_raised = FALSE
    /\ prior = NoPrior
    /\ stats = NoStats
    /\ calls = << >>
    /\ modules \in ModuleSets
    /\ session_id = None
    /\ stream_pc = "none"
    /\ events = << >>
    /\ chunk_index = 0
    /\ final_session_id = None

\* gen = service.stream_rag_pipeline(message, sid): a new run; nothing of the
\* body runs before the consumer asks for the first event
StreamCall(sid) ==
    /\ stream_pc \in {"none", "ended"}
    /\ session_id' = sid
    /\ stream_pc' = "created"
    /\ events' = << >>
    /\ chunk_index' = 0
    /\ final_session_id' = sid
    /\ UNCHANGED modules
    /\ UNCHANGED <<mergeVars, indexVars, concVars, callerVars, tokVars, failVars,
                   rerankVars>>

\* first resumption, chat_service.py:374-477: session, retrieval and
\* reranking, then the metadata event - or, when a session call raises or the
\* search results have no length, the error event of the outer except clause
\* (lines 543-550)
StreamPrepare(sess, srch, rr) ==
    /\ stream_pc = "created"
    /\ IF SessionRaises(modules, sess) \/ SearchUnsized(modules, srch)
       THEN /\ events' = Append(events, ErrorEvent("INTERNAL_ERROR"))
            /\ stream_pc' = "error"
            /\ UNCHANGED final_session_id
       ELSE /\ final_session_id' = FinalSessionId(modules, session_id, sess)
            /\ events' = Append(events,
                   MetadataEvent(final_session_id',
                                 SearchResults(modules, srch),
                                 RankedResults(modules, srch, rr),
                                 RerankingApplied(modules, srch, rr)))
            /\ stream_pc' = "metadata"
    /\ UNCHANGED <<modules, session_id, chunk_index>>
    /\ UNCHANGED <<mergeVars, indexVars, concVars, callerVars, tokVars, failVars,
                   rerankVars>>

\* chat_service.py:494-505: stream_answer yields a text, which is passed on
\* as a chunk event
StreamChunk ==
    /\ modules.generation = "streaming"
    /\ stream_pc \in {"metadata", "chunk"}
    /\ ChunksEmitted < MaxChunks
    /\ chunk_index' = ResumedIndex(stream_pc, chunk_index)
    /\ events' = Append(events, ChunkEvent(chunk_index'))
    /\ stream_pc' = "chunk"
    /\ UNCHANGED <<modules, session_id, final_session_id>>
    /\ UNCHANGED <<mergeVars, indexVars, concVars, callerVars, tokVars, failVars,
                   rerankVars>>

\* chat_service.py:494-536: stream_answer is exhausted; the done event
StreamGenerationEnds ==
    /\ modules.generation = "streaming"
    /\ stream_pc \in {"metadata", "chunk"}
    /\ chunk_index' = ResumedIndex(stream_pc, chunk_index)
    /\ events' = Append(events, DoneEvent(final_session_id, chunk_index'))
    /\ stream_pc' = "done"
    /\ UNCHANGED <<modules, session_id, final_session_id>>
    /\ UNCHANGED <<mergeVars, indexVars, concVars, callerVars, tokVars, failVars,
                   rerankVars>>

\* chat_service.py:494-514: stream_answer raises, at once or after chunks;
\* the error event of the inner except clause
StreamGenerationRaises ==
    /\ modules.generation = "streaming"
    /\ stream_pc \in {"metadata", "chunk"}
    /\ chunk_index' = ResumedIndex(stream_pc, chunk_index)
    /\ events' = Append(events, ErrorEvent("GENERATION_REQUEST_FAILED"))
    /\ stream_pc' = PcAfterGenerationError
    /\ UNCHANGED <<modules, session_id, final_session_id>>
    /\ UNCHANGED <<mergeVars, indexVars, concVars, callerVars, tokVars, failVars,
                   rerankVars>>

\* chat_service.py:515-522: no generation module that streams; the fallback
\* chunk with chunk_index 0
StreamFallback ==
    /\ modules.generation # "streaming"
    /\ stream_pc = "metadata"
    /\ events' = Append(events, ChunkEvent(0))
    /\ stream_pc' = "fallback"
    /\ UNCHANGED <<modules, session_id, final_session_id, chunk_index>>
    /\ UNCHANGED <<mergeVars, indexVars, concVars, callerVars, tokVars, failVars,
                   rerankVars>>

\* chat_service.py:523-536: chunk_index = 1, then the done event
StreamAfterFallback ==
    /\ stream_pc = "fallback"
    /\ chunk_index' = 1
    /\ events' = Append(events, DoneEvent(final_session_id, chunk_index'))
    /\ stream_pc' = "done"
    /\ UNCHANGED <<modules, session_id, final_session_id>>
    /\ UNCHANGED <<mergeVars, indexVars, concVars, callerVars, tokVars, failVars,
                   rerankVars>>

\* the resumption after the done event (lines 538-541) or after an error
\* event (line 514, or the end of the except clause): the generator ends
StreamEnd ==
    /\ stream_pc \in {"done", "error"}
    /\ stream_pc' = "ended"
    /\ UNCHANGED <<modules, session_id, final_session_id, chunk_index, events>>
    /\ UNCHANGED <<mergeVars, indexVars, concVars, callerVars, tokVars, failVars,
                   rerankVars>>

StreamNext ==
    \/ \E sid \in SessionIdArgs : StreamCall(sid)
    \/ \E sess \in SessionOutcomes, srch \in SearchOutcomes,
          rr \in RerankOutcomes : StreamPrepare(sess, srch, rr)
    \/ StreamChunk
    \/ StreamGenerationEnds
    \/ StreamGenerationRaises
    \/ StreamFallback
    \/ StreamAfterFallback
    \/ StreamEnd

SpecStream == StreamInit /\ [][StreamNext]_vars

-----------------------------------------------------------------------------
(* Reference values the claims are stated with, computed from the input    *)
(* lists by position and not by the merge loops                            *)

Returned == pc = "returned"

MergedIds == [i \in 1..Len(merged) |-> merged[i].id]

InputIds == Ids(dense_results) \cup Ids(bm25_results)

FirstIndex(list, id) ==
    CHOOSE i \in 1..Len(list) :
        /\ list[i].id = id
        /\ \A j \in 1..(i - 1) : list[j].id # id

\* sum over the positions of list that hold id of weight / (K + rank + 1)
RECURSIVE TermSum(_, _, _, _)
TermSum(list, id, weight, n) ==
    IF n = 0
    THEN 0
    ELSE TermSum(list, id, weight, n - 1)
         + (IF list[n].id = id THEN weight * (Unit \div (_RRF_K + n)) ELSE 0)

FusedScore(id) ==
    TermSum(dense_results, id, alpha, Len(dense_results))
    + TermSum(bm25_results, id, 10 - alpha, Len(bm25_results))

-----------------------------------------------------------------------------
(* Claims about HybridMerger *)

RankIn(list, id) == FirstIndex(list, id) - 1

ExpectedRrf(id) ==
    (IF id \in Ids(dense_results)
     THEN alpha * (Unit \div (61 + RankIn(dense_results, id))) ELSE 0)
    + (IF id \in Ids(bm25_results)
       THEN (10 - alpha) * (Unit \div (61 + RankIn(bm25_results, id))) ELSE 0)

\* C1: for lists with pairwise distinct ids, every returned id carries
\* alpha/(61 + rD) for its dense rank rD plus (1 - alpha)/(61 + rK) for its
\* keyword rank rK, the two terms summed when it is in both lists; so with
\* alpha = 0.6 an id at rank 0 in both lists scores exactly 1/61.
C1_RrfSum ==
    (Returned /\ DistinctIds(dense_results) /\ DistinctIds(bm25_results)) =>
        /\ \A i \in 1..Len(merged) : merged[i].score = ExpectedRrf(merged[i].id)
        /\ \A i \in 1..Len(merged) :
              ( /\ alpha = 6
                /\ dense_results # << >> /\ bm25_results # << >>
                /\ dense_results[1].id = merged[i].id
                /\ bm25_results[1].id = merged[i].id )
              => merged[i].score * 61 = One

C1_Witness ==
    /\ Returned /\ alpha = 6
    /\ Len(dense_results) = 2 /\ Len(bm25_results) = 2
    /\ DistinctIds(dense_results) /\ DistinctIds(bm25_results)
    /\ dense_results[1].id = bm25_results[1].id
    /\ Len(merged) = 3
    /\ merged[1].score * 61 = One

\* C2: the returned list never holds an id twice, also when the inputs hold
\* an id in both lists or several times in one list.
C2_UniqueIds == Returned => DistinctIds(merged)

C2_Witness ==
    /\ Returned
    /\ ~DistinctIds(dense_results)
    /\ Ids(dense_results) \cap Ids(bm25_results) # {}
    /\ ~DistinctIds(bm25_results)
    /\ top_k = 3 /\ Len(merged) = 2

\* C3: the result is the first top_k of the accumulated ids in descending
\* fused score: scores never increase along the result, no id left out has a
\* strictly higher fused score than a returned one, and at most top_k
\* results come back (none for top_k = 0).
C3_TopKSorted ==
    Returned =>
        /\ Len(merged) = Min(top_k, Cardinality(InputIds))
        /\ \A i \in 1..Len(merged) : merged[i].score = FusedScore(merged[i].id)
        /\ \A i, j \in 1..Len(merged) : i < j => merged[i].score >= merged[j].score
        /\ \A id \in InputIds :
              (\A i \in 1..Len(merged) : merged[i].id # id) =>
                  \A i \in 1..Len(merged) : FusedScore(id) <= merged[i].score
        /\ top_k = 0 => merged = << >>

C3_Witness ==
    /\ Returned /\ top_k = 2 /\ Len(merged) = 2
    /\ Cardinality(InputIds) = 3
    /\ merged[1].score > merged[2].score
    /\ \E id \in InputIds :
          /\ \A i \in 1..Len(merged) : merged[i].id # id
          /\ FusedScore(id) > 0 /\ FusedScore(id) < merged[2].score

DisjointNonEmpty ==
    /\ dense_results # << >> /\ bm25_results # << >>
    /\ Ids(dense_results) \cap Ids(bm25_results) = {}

SameItem(result, entry) ==
    /\ result.id = entry.id
    /\ result.content = entry.content

\* C4 as stated: for ANY two non-empty lists sharing no id and top_k >= 1,
\* alpha = 1.0 puts the dense rank-0 item first and alpha = 0.0 puts the
\* keyword rank-0 item first.
C4_AsStated ==
    (Returned /\ DisjointNonEmpty /\ top_k >= 1) =>
        /\ alpha = 10 => SameItem(merged[1], dense_results[1])
        /\ alpha = 0 => SameItem(merged[1], bm25_results[1])

\* C4 amended: the same, for lists in which the favoured list (dense for
\* alpha = 1.0, keyword for alpha = 0.0) holds no id twice.
C4_AlphaEndpoints ==
    (Returned /\ DisjointNonEmpty /\ top_k >= 1) =>
        /\ (alpha = 10 /\ DistinctIds(dense_results))
              => SameItem(merged[1], dense_results[1])
        /\ (alpha = 0 /\ DistinctIds(bm25_results))
              => SameItem(merged[1], bm25_results[1])

C4_Witness ==
    /\ Returned /\ DisjointNonEmpty /\ top_k >= 1
    /\ alpha = 0
    /\ Len(dense_results) = 1 /\ Len(bm25_results) = 2
    /\ DistinctIds(dense_results) /\ DistinctIds(bm25_results)
    /\ SameItem(merged[1], bm25_results[1])

\* C5: a returned id carries the content and metadata of its first sighting,
\* dense list first: of its first dense occurrence when it is in the dense
\* list, of its first keyword occurrence otherwise (a keyword dict without
\* metadata gives the empty mapping); later sightings never overwrite them.
C5_FirstSighting ==
    Returned =>
        \A i \in 1..Len(merged) :
            LET id == merged[i].id IN
            IF id \in Ids(dense_results)
            THEN LET e == dense_results[FirstIndex(dense_results, id)]
                 IN  merged[i].content = e.content /\ merged[i].metadata = e.metadata
            ELSE LET e == bm25_results[FirstIndex(bm25_results, id)]
                 IN  /\ merged[i].content = e.content
                     /\ merged[i].metadata =
                            (IF e.metadata = Absent THEN EmptyMeta ELSE e.metadata)

C5_Witness ==
    /\ Returned
    /\ Len(dense_results) = 3
    /\ dense_results[2].id = "a" /\ dense_results[3].id = "a"
    /\ dense_results[2].content # dense_results[3].content
    /\ Len(bm25_results) = 2
    /\ bm25_results[1].id = "c" /\ bm25_results[2].id = "c"
    /\ bm25_results[1].content # bm25_results[2].content
    /\ Len(merged) = 3

\* C6: with one list empty and the other holding pairwise distinct ids, the
\* result is the ids of the non-empty list in input order, cut to top_k -
\* for every alpha, also the one that weighs that side 0.
C6_SingleSidedOrder ==
    Returned =>
        /\ (bm25_results = << >> /\ DistinctIds(dense_results)) =>
              MergedIds = [i \in 1..Min(top_k, Len(dense_results)) |->
                              dense_results[i].id]
        /\ (dense_results = << >> /\ DistinctIds(bm25_results)) =>
              MergedIds = [i \in 1..Min(top_k, Len(bm25_results)) |->
                              bm25_results[i].id]

C6_Witness ==
    /\ Returned /\ alpha = 10
    /\ dense_results = << >>
    /\ Len(bm25_results) = 2 /\ DistinctIds(bm25_results)
    /\ Len(merged) = 2
    /\ merged[1].score = 0

\* C7: the constructor raises exactly for alpha < 0.0 or alpha > 1.0 and
\* otherwise builds a merger holding that alpha; no merger ever holds an
\* alpha outside [0.0, 1.0].
C7_AlphaRange ==
    /\ ctor.called =>
          /\ ctor.raised <=> (ctor.arg < 0 \/ ctor.arg > 10)
          /\ ~ctor.raised => (merger /\ alpha = ctor.arg)
          /\ ctor.raised => ~merger
    /\ merger => (0 <= alpha /\ alpha <= 10)

C7_Witness == ctor.called /\ ctor.raised /\ ctor.arg = 11 /\ ~merger

MemoAgrees ==
    ( /\ Returned /\ memo # NoMemo
      /\ memo[1].dense = dense_results
      /\ memo[1].bm25 = bm25_results
      /\ memo[1].top_k = top_k )
    => merged = memo[1].merged

MergeStep == pc' = "returned" /\ (memo = NoMemo <=> memo' = NoMemo)

-----------------------------------------------------------------------------
(* Claims about BM25Index *)

\* C9: a search that runs while another thread rebuilds the index reads its
\* documents and its ranking model from one and the same build: every document
\* the result loop reads was stored by the build that stored the ranking model
\* whose scores the loop walks.
C9_OneSnapshot ==
    \A g \in s_docGens : g = s_modelGen

DocsOf(list) == { list[i] : i \in 1..Len(list) }

FromDoc(r, doc) == r.id = doc.id /\ r.content = doc.content

\* C10: each build replaces the index: document_count is the number of
\* documents passed to the most recent build (0 before any build), and a
\* search returns only documents of the most recent build.
C10_BuildReplaces ==
    /\ document_count = Len(lastBuild)
    /\ searched =>
          \A i \in 1..Len(results) :
              \E doc \in DocsOf(lastBuild) : FromDoc(results[i], doc)

C10_Witness ==
    /\ searched
    /\ Len(lastBuild) = 1
    /\ \E doc \in earlierDocs :
          /\ doc \notin DocsOf(lastBuild)
          /\ Count(Tokenize(doc.content), "api") > 0
    /\ Len(results) = 1
    /\ Count(Tokenize(query), "api") > 0

\* C11: build([]) leaves an empty index, also after a non-empty build: no
\* documents are counted, no ranking model is held, and every search on it
\* returns the empty list.
C11_EmptyBuildResets ==
    lastBuild = << >> =>
        /\ document_count = 0
        /\ _bm25 = << >>
        /\ searched => results = << >>

C11_Witness ==
    /\ lastBuild = << >>
    /\ earlierDocs # {}
    /\ searched
    /\ search_k > 0
    /\ \E doc \in earlierDocs :
          \E i \in 1..Len(query) : \E j \in 1..Len(doc.content) :
              /\ query[i] = doc.content[j]
              /\ query[i].tag \in _MEANINGFUL_POS_TAGS

\* C12: between two builds the index is a snapshot of the list passed to the
\* last build: whatever the caller does to that list afterwards,
\* document_count stays the length the list had at the build, and a search
\* returns what it returns on the documents as they were then, without raising.
C12_Snapshot ==
    /\ document_count = Len(lastBuild)
    /\ ~search_raised
    /\ searched => results = SearchResult(lastBuild, _bm25, query, search_k)

\* the text holds no morpheme of an allowed tag: it is empty, whitespace only,
\* or made of particles and endings only
NoMeaningfulPiece(text) ==
    \A i \in 1..Len(text) : text[i].tag \notin _MEANINGFUL_POS_TAGS

\* C13: a search on an index never built or built empty, or with a query that
\* is empty, whitespace only or loses all its tokens to the tag filter,
\* returns the empty list, raises nothing and does not ask the ranking model
\* for scores.
C13_EmptySearch ==
    (lastBuild = << >> \/ NoMeaningfulPiece(query)) =>
        /\ ~search_raised
        /\ ~consulted
        /\ searched => results = << >>

C13_Witness ==
    /\ searched
    /\ Len(lastBuild) = 2
    /\ query # << >> /\ query[1] # Space /\ NoMeaningfulPiece(query)
    /\ search_k > 0
    /\ results = << >>
    /\ ~consulted

\* raw scores of the documents of the index for the last query
RawOfQuery == GetScores(_bm25[1], Tokenize(query))

Answered == searched /\ Consults(_documents, _bm25, query)

\* result r is the answer for the document at corpus position idx
AnswerFor(r, idx) ==
    /\ FromDoc(r, _documents[idx])
    /\ RawOfQuery[idx] > 0
    /\ r.score = _normalize_score(RawOfQuery[idx])

\* C14 as stated: every returned score is strictly between 0 and 1 (100000
\* stands for 1.0).
C14_AsStated ==
    Answered =>
        \A i \in 1..Len(results) :
            /\ \E idx \in 1..Len(_documents) : AnswerFor(results[i], idx)
            /\ 0 < results[i].score /\ results[i].score < 100000

\* C14 amended: every result comes from a document with raw score > 0 and
\* carries the binary64 value of 1 / (1 + e^(-raw)), which is above 0 and at
\* most 1: below 1 for a raw score under the saturation point, exactly 1.0
\* from there on.  When no document has a positive raw score nothing comes
\* back.
C14_ScoreBounds ==
    Answered =>
        /\ \A i \in 1..Len(results) :
              \E idx \in 1..Len(_documents) :
                  /\ AnswerFor(results[i], idx)
                  /\ 0 < results[i].score /\ results[i].score <= 100000
                  /\ results[i].score = 100000
                         <=> RawOfQuery[idx] >= SigmoidSaturation
        /\ (\A idx \in 1..Len(_documents) : RawOfQuery[idx] <= 0)
              => results = << >>

C14_Witness ==
    /\ Answered
    /\ Len(results) = 2
    /\ results[1].score = 100000
    /\ results[2].score < 100000 /\ results[2].score > 50000

PositiveIdx == { idx \in 1..Len(_documents) : RawOfQuery[idx] > 0 }

ScoreOf(idx) == _normalize_score(RawOfQuery[idx])

\* the place of document idx in the ranking: after every document with a
\* higher score and after every earlier document with the same score
Place(idx) ==
    1 + Cardinality({ j \in PositiveIdx :
                        \/ ScoreOf(j) > ScoreOf(idx)
                        \/ ScoreOf(j) = ScoreOf(idx) /\ j < idx })

\* C15: the results are the documents with positive raw score in
\* non-increasing order of normalized score, documents with equal scores in
\* corpus order, cut to top_k (none for top_k = 0); the list is a function of
\* the index, the query and top_k.
C15_RankedStable ==
    Answered =>
        /\ Len(results) = Min(search_k, Cardinality(PositiveIdx))
        /\ \A i, j \in 1..Len(results) :
              i < j => results[i].score >= results[j].score
        /\ \A idx \in PositiveIdx :
              Place(idx) <= Len(results) =>
                  /\ FromDoc(results[Place(idx)], _documents[idx])
                  /\ results[Place(idx)].metadata = DocMetadata(_documents[idx])
                  /\ results[Place(idx)].score = ScoreOf(idx)

C15_Witness ==
    /\ Answered
    /\ search_k = 2
    /\ Len(results) = 2
    /\ results[1].score = results[2].score
    /\ results[1].id # results[2].id
    /\ results[1].id = _documents[1].id

\* C16 as stated: for EVERY corpus, the ids of a result list are pairwise
\* distinct.
C16_AsStated == searched => DistinctIds(results)

\* C16 amended: the ids of a result list are pairwise distinct when the
\* documents of the last build have pairwise distinct ids.
C16_UniqueIds == (searched /\ DistinctIds(lastBuild)) => DistinctIds(results)

C16_Witness ==
    /\ searched
    /\ DistinctIds(lastBuild)
    /\ Len(results) = 2

-----------------------------------------------------------------------------
(* Claims about KoreanTokenizer *)

AllCollaborators ==
    [stopword_filter |-> TRUE, synonym_manager |-> TRUE, user_dictionary |-> TRUE]

NonBlankText(text) == \E i \in 1..Len(text) : text[i] # Space

IsMeaningful(m) == m.tag \in _MEANINGFUL_POS_TAGS

\* the morphemes of an allowed tag, in text order
Retained(text) == SelectSeq(text, IsMeaningful)

Forms(morphs) == [i \in 1..Len(morphs) |-> morphs[i].form]

\* a form with the placeholder of the compound term put back
Restored(form) == IF form = Placeholder.form THEN CompoundTerm ELSE form

RECURSIVE WithoutStopwords(_, _)
WithoutStopwords(tokens, n) ==
    IF n = 0
    THEN << >>
    ELSE IF tokens[n] \in Stopwords
         THEN WithoutStopwords(tokens, n - 1)
         ELSE Append(WithoutStopwords(tokens, n - 1), tokens[n])

C18_AllowListOnly ==
    (t_op = "tokenize" /\ tk = NoCollaborators) =>
        /\ t_tokens = Forms(Retained(t_text))
        /\ \A i \in 1..Len(t_calls) : t_calls[i].op = "kiwi.tokenize"

C18_Witness ==
    /\ t_op = "tokenize" /\ tk = NoCollaborators
    /\ Len(t_text) = 6
    /\ t_tokens = <<"setup", "install", "install">>

\* C19: tokenize_batch returns one token list per text, in the order of the
\* texts, each the list tokenize returns for that text; no text gives [].
C19_BatchElementwise ==
    t_op = "tokenize_batch" =>
        /\ Len(b_result) = Len(b_texts)
        /\ \A i \in 1..Len(b_texts) : b_result[i] = TokenizeWith(tk, b_texts[i]).tokens

C19_Witness ==
    /\ t_op = "tokenize_batch"
    /\ Len(b_texts) = 2
    /\ b_texts[1] = <<Space>>
    /\ b_result[1] = << >>
    /\ Len(b_result[2]) = 3

\* C20: for the empty text and for a text of whitespace only, tokenize
\* returns the empty list before any collaborator or the analyzer is called,
\* whatever collaborators the tokenizer has.
C20_BlankGivesEmpty ==
    (t_op = "tokenize" /\ ~NonBlankText(t_text)) =>
        /\ t_tokens = << >>
        /\ t_calls = << >>

C20_Witness ==
    /\ t_op = "tokenize"
    /\ tk = AllCollaborators
    /\ t_text = <<Space>>
    /\ t_tokens = << >>

-----------------------------------------------------------------------------
(* Claims about the fused scores and ids of HybridMerger.merge *)

\* the weight merge gives the side(s) that hold id is not 0
WeighedSide(id) ==
    \/ id \in Ids(dense_results) /\ alpha > 0
    \/ id \in Ids(bm25_results) /\ alpha < 10

\* C21 as stated: every result of merge carries a strictly positive fused
\* score, for every alpha in [0,1] and all input lists.
C21_AsStated ==
    Returned => \A i \in 1..Len(merged) : merged[i].score > 0

\* C21 amended: every result of merge carries a fused score >= 0, which is
\* strictly positive exactly when the id is in a list of non-zero weight
\* (dense for alpha > 0, keyword for alpha < 1) and exactly 0 otherwise: for
\* a keyword-only id under alpha = 1.0 and a dense-only id under alpha = 0.0.
C21_ScoreSign ==
    Returned =>
        \A i \in 1..Len(merged) :
            /\ merged[i].score >= 0
            /\ merged[i].score > 0 <=> WeighedSide(merged[i].id)

C21_Witness ==
    /\ Returned /\ alpha = 10
    /\ Len(merged) = 2
    /\ merged[1].id \in Ids(dense_results) /\ merged[1].score > 0
    /\ merged[2].id \notin Ids(dense_results) /\ merged[2].score = 0

RepeatedIn(list, id) ==
    \E i, j \in 1..Len(list) : i < j /\ list[i].id = id /\ list[j].id = id

LastIndex(list, id) ==
    CHOOSE i \in 1..Len(list) :
        /\ list[i].id = id
        /\ \A j \in (i + 1)..Len(list) : list[j].id # id

\* the score of id if, within each list, only its last occurrence counted
LastOnlyScore(id) ==
    (IF id \in Ids(dense_results)
     THEN alpha * (Unit \div (60 + LastIndex(dense_results, id))) ELSE 0)
    + (IF id \in Ids(bm25_results)
       THEN (10 - alpha) * (Unit \div (60 + LastIndex(bm25_results, id))) ELSE 0)

\* C26 as stated: when an id occurs more than once within one input list, a
\* later occurrence overwrites what the earlier one contributed, so the id's
\* fused score holds only the last occurrence's term of that list.
C26_AsStated ==
    Returned =>
        \A i \in 1..Len(merged) :
            (RepeatedIn(dense_results, merged[i].id)
             \/ RepeatedIn(bm25_results, merged[i].id))
            => merged[i].score = LastOnlyScore(merged[i].id)

\* C26 amended: when an id occurs more than once within one input list, every
\* occurrence adds its own term weight/(61 + rank) to the id's fused score;
\* with a non-zero weight on that list the score is therefore strictly
\* greater than what the last occurrence alone would give.
C26_DuplicatesAdd ==
    Returned =>
        \A i \in 1..Len(merged) :
            LET id == merged[i].id IN
            /\ (RepeatedIn(dense_results, id) \/ RepeatedIn(bm25_results, id))
                  => merged[i].score = FusedScore(id)
            /\ ( \/ RepeatedIn(dense_results, id) /\ alpha > 0
                 \/ RepeatedIn(bm25_results, id) /\ alpha < 10 )
                  => merged[i].score > LastOnlyScore(id)

C26_Witness ==
    /\ Returned /\ alpha = 6
    /\ Len(dense_results) = 3
    /\ dense_results[1].id = "b"
    /\ dense_results[2].id = "a" /\ dense_results[3].id = "a"
    /\ bm25_results = << >>
    /\ Len(merged) = 2
    /\ merged[1].id = "a"
    /\ merged[1].score = 6 * (Unit \div 62) + 6 * (Unit \div 63)

\* C28: merge neither invents nor drops ids: every returned id is in the
\* dense or the keyword input; when top_k is at least the number of distinct
\* input ids the returned ids are exactly the ids of both inputs, also those
\* whose fused score is 0; two empty inputs give the empty list.
C28_IdsPreserved ==
    Returned =>
        /\ \A i \in 1..Len(merged) : merged[i].id \in InputIds
        /\ top_k >= Cardinality(InputIds) => Ids(merged) = InputIds
        /\ (dense_results = << >> /\ bm25_results = << >>) => merged = << >>

C28_Witness ==
    /\ Returned /\ alpha = 0
    /\ top_k = 3 /\ Cardinality(InputIds) = 3
    /\ Ids(merged) = {"a", "b", "c"}
    /\ merged[3].id = "b" /\ merged[3].score = 0

-----------------------------------------------------------------------------
(* Claims about build calls that raise *)

\* C27: when build raises (the tokenizer raises on the new documents, or the
\* ranking library cannot be imported) the index is left exactly as it was
\* before the call: the same documents, token lists and ranking model, hence
\* the same document_count and search results, and as many stored documents
\* as the ranking model has.
C27_FailedBuildKeeps ==
    build_raised =>
        /\ IndexNow = prior
        /\ _bm25 # << >> => Len(_documents) = Len(_bm25[1].corpus)

-----------------------------------------------------------------------------
(* Claims about the lower end of the scores of BM25Index.search *)

\* C30: every score returned by search is strictly greater than 0.5 (50000
\* in the units of _normalize_score): only documents with raw score > 0 are
\* returned and the sigmoid of a positive number exceeds 1/2, so no result
\* has a score in (0, 0.5].
C30_AboveHalf ==
    searched =>
        \A i \in 1..Len(results) :
            /\ results[i].score > 50000
            /\ \E idx \in PositiveIdx : AnswerFor(results[i], idx)

C30_Witness ==
    /\ searched
    /\ Len(results) = 2
    /\ \E idx \in 1..Len(_documents) :
          /\ RawOfQuery[idx] > 0 /\ RawOfQuery[idx] < 1000
          /\ AnswerFor(results[2], idx)
    /\ results[2].score > 50000 /\ results[2].score < 70000

-----------------------------------------------------------------------------
(* Claims about the part-of-speech tags KoreanTokenizer keeps *)

\* tokenizer.py:26-29, the tags the comment above the allow-list names
DocumentedTags == {"NNG", "NNP", "NNB", "VV", "VA", "MAG", "SL", "SN", "SH"}

IsDocumented(m) == m.tag \in DocumentedTags

\* C29: tokenize retains a segmented form exactly when its tag is one of the
\* nine documented tags NNG, NNP, NNB, VV, VA, MAG, SL, SN, SH; a form tagged
\* NNB is kept.  (Stated for a tokenizer without collaborators, where nothing
\* but the tag test decides what is returned.)
C29_DocumentedTagsKept ==
    (t_op = "tokenize" /\ tk = NoCollaborators) =>
        t_tokens = Forms(SelectSeq(Kiwi(t_text), IsDocumented))

-----------------------------------------------------------------------------
(* Claims about CohereReranker *)

\* the remote call of this call or the handling of its response failed: the
\* post raised, the body has no "results", or one of its indexes is one that
\* results[index] rejects (index >= len(results) or index < -len(results))
Failed(call) ==
    \/ call.reply.kind \in PostErrors
    \/ /\ call.reply.kind = "response"
       /\ \/ ~call.reply.body.has_results
          \/ \E i \in 1..Len(call.reply.body.rank_results) :
                ~PyIndexOk(call.results, call.reply.body.rank_results[i].index)

\* the list a response describes: per entry the named original result with
\* the entry's relevance score
Reranked(call) ==
    LET rr == call.reply.body.rank_results
    IN  [i \in 1..Len(rr) |->
            LET o == PyGet(call.results, rr[i].index)
            IN  [id |-> o.id, content |-> o.content,
                 score |-> rr[i].relevance_score, metadata |-> o.metadata]]

NonEmptyCalls == { c \in 1..Len(calls) : calls[c].results # << >> }

InFlight == { c \in 1..Len(calls) : calls[c].pc = "awaiting" }

Done(c) == calls[c].pc = "returned" /\ calls[c].results # << >>

\* C25: total_requests counts the calls made with a non-empty list, each of
\* which, once it has returned, is counted in exactly one of
\* successful_requests and failed_requests; a call with an empty list is
\* counted nowhere.  So total_requests minus the two other counters is the
\* number of calls in flight, and the three balance when none is.
C25_StatsBalance ==
    /\ stats.total_requests = Cardinality(NonEmptyCalls)
    /\ stats.successful_requests =
           Cardinality({ c \in 1..Len(calls) : Done(c) /\ ~Failed(calls[c]) })
    /\ stats.failed_requests =
           Cardinality({ c \in 1..Len(calls) : Done(c) /\ Failed(calls[c]) })
    /\ stats.total_requests - stats.successful_requests - stats.failed_requests
           = Cardinality(InFlight)
    /\ InFlight = {} =>
           stats.total_requests
               = stats.successful_requests + stats.failed_requests

C25_Witness ==
    /\ Len(calls) = 2
    /\ calls[1].pc = "awaiting"
    /\ calls[2].pc = "returned" /\ calls[2].outcome = "timeout"
    /\ stats = [total_requests |-> 2, successful_requests |-> 0,
                failed_requests |-> 1]

-----------------------------------------------------------------------------
(* Claims about the events of ChatService.stream_rag_pipeline *)

Terminal(e) == e.event \in {"done", "error"}

\* C22: the events of a run come in the order metadata (at most one, before
\* every chunk), chunks, one terminal event: a metadata event is the first
\* event, a done or error event is the last event (so the two never both
\* occur and no chunk follows either), every chunk and every done event has
\* the metadata event before it, a run consumed to its end has emitted its
\* terminal event, and a failure before the metadata event leaves the error
\* event as the only event.
C22_EventOrder ==
    /\ \A i \in 1..Len(events) :
          /\ events[i].event = "metadata" => i = 1
          /\ Terminal(events[i]) => i = Len(events)
          /\ events[i].event \in {"chunk", "done"} =>
                i > 1 /\ events[1].event = "metadata"
          /\ events[i].error_code = "INTERNAL_ERROR" =>
                events = <<ErrorEvent("INTERNAL_ERROR")>>
    /\ stream_pc = "ended" =>
          /\ events # << >>
          /\ Terminal(events[Len(events)])
          /\ events[1].event # "metadata" =>
                events = <<ErrorEvent("INTERNAL_ERROR")>>

\* a run consumed to its end whose generation failed after two chunks
C22_Witness ==
    /\ stream_pc = "ended"
    /\ Len(events) = 4
    /\ events[1].event = "metadata"
    /\ events[2].event = "chunk"
    /\ events[3].event = "chunk"
    /\ events[4] = ErrorEvent("GENERATION_REQUEST_FAILED")

\* C23: the chunk events of a run carry chunk_index 0, 1, 2, ... in
\* emission order, and a done event carries as total_chunks the number of
\* chunk events emitted before it - 1, for the single fallback chunk, when
\* there is no generation module that streams.
C23_ChunkIndexes ==
    /\ \A j \in 1..Len(Chunks(events)) :
          Chunks(events)[j].chunk_index = j - 1
    /\ \A i \in 1..Len(events) :
          events[i].event = "done" =>
             /\ events[i].total_chunks = Len(Chunks(SubSeq(events, 1, i - 1)))
             /\ modules.generation # "streaming" =>
                   events[i].total_chunks = 1

\* a streamed run of two chunks that reached its done event
C23_Witness ==
    /\ modules.generation = "streaming"
    /\ Len(events) = 4
    /\ events[2] = ChunkEvent(0)
    /\ events[3] = ChunkEvent(1)
    /\ events[4].event = "done" /\ events[4].total_chunks = 2

-----
(* Specifications *)

Init == MergeInit

Next == MergeNext

Spec == Init /\ [][Next]_vars

SpecIndex == IndexInit /\ [][IndexNext]_vars

=============================================================================
